---- MODULE Spec2Model ----
(***************************************************************************)
(* Transio: one-time secret disclosure service.                            *)
(*                                                                         *)
(* The model follows backend/app/main.py (the POST /api/share and          *)
(* GET|HEAD /api/share/secret/<link_id> handlers), backend/app/models.py   *)
(* (the Secret document), src/backend/app/encryption.py and                *)
(* src/backend/config.py (the key ring).  The store is the Cosmos          *)
(* container as the handlers see it: create_item / read_item /             *)
(* delete_item by id, each of which may fail.                              *)
(*                                                                         *)
(* Strings are sequences of Unicode code points, bytes are sequences of    *)
(* numbers 0..255.                                                         *)
(***************************************************************************)
EXTENDS Integers, Sequences, FiniteSets, TLC

-----------------------------------------------------------------------------
(* Bounds of the model *)

\* number of link ids generate_unique_link_id hands out
MaxIds == 1
\* number of GET/HEAD requests that are served
NReq == 2
\* last instant of the clock
MaxTime == 1
\* number of distinct Fernet keys the operator can configure
MaxKey == 2
\* configured MAX_SECRET_LENGTH_BYTES, scaled down from 100 * 1024
MAX_SECRET_LENGTH_BYTES == 3

\* SECRET_EXPIRY_MINUTES in ticks of the clock: the TTL of a stored document
ExpiryWindow == 1

-----------------------------------------------------------------------------
(* Text, bytes, UTF-8 and base64 *)

\* "text/plain"
TextPlain == <<116, 101, 120, 116, 47, 112, 108, 97, 105, 110>>
\* "Dummy payload for non-existent secret"
DummyPayloadText ==
    <<68, 117, 109, 109, 121, 32, 112, 97, 121, 108, 111, 97, 100, 32, 102,
      111, 114, 32, 110, 111, 110, 45, 101, 120, 105, 115, 116, 101, 110,
      116, 32, 115, 101, 99, 114, 101, 116>>

IsSurrogate(cp) == cp >= 55296 /\ cp <= 57343

\* str.encode("utf-8") of one code point
Utf8Bytes(cp) ==
    IF cp < 128 THEN <<cp>>
    ELSE IF cp < 2048 THEN <<192 + (cp \div 64), 128 + (cp % 64)>>
    ELSE <<224 + (cp \div 4096), 128 + ((cp \div 64) % 64), 128 + (cp % 64)>>

\* a str with a lone surrogate makes .encode("utf-8") raise UnicodeEncodeError
Encodable(s) == \A i \in 1..Len(s) : ~IsSurrogate(s[i])

RECURSIVE Utf8Encode(_)
Utf8Encode(s) ==
    IF s = <<>> THEN <<>> ELSE Utf8Bytes(Head(s)) \o Utf8Encode(Tail(s))

\* bytes.decode("utf-8") of well-formed UTF-8
RECURSIVE Utf8Decode(_)
Utf8Decode(b) ==
    IF b = <<>> THEN <<>>
    ELSE IF b[1] < 128 THEN <<b[1]>> \o Utf8Decode(SubSeq(b, 2, Len(b)))
    ELSE IF b[1] < 224
         THEN <<(b[1] - 192) * 64 + (b[2] - 128)>>
              \o Utf8Decode(SubSeq(b, 3, Len(b)))
    ELSE <<(b[1] - 224) * 4096 + (b[2] - 128) * 64 + (b[3] - 128)>>
         \o Utf8Decode(SubSeq(b, 4, Len(b)))

\* the code point of the i-th character of the base64 alphabet
B64Char(i) ==
    IF i < 26 THEN 65 + i
    ELSE IF i < 52 THEN 97 + (i - 26)
    ELSE IF i < 62 THEN 48 + (i - 52)
    ELSE IF i = 62 THEN 43 ELSE 47

B64Index(c) ==
    IF c >= 65 /\ c <= 90 THEN c - 65
    ELSE IF c >= 97 /\ c <= 122 THEN c - 97 + 26
    ELSE IF c >= 48 /\ c <= 57 THEN c - 48 + 52
    ELSE IF c = 43 THEN 62 ELSE 63

\* '='
B64Pad == 61

\* base64.b64encode(b).decode("utf-8")
RECURSIVE B64Encode(_)
B64Encode(b) ==
    IF b = <<>> THEN <<>>
    ELSE IF Len(b) = 1
         THEN <<B64Char(b[1] \div 4), B64Char((b[1] % 4) * 16),
                B64Pad, B64Pad>>
    ELSE IF Len(b) = 2
         THEN <<B64Char(b[1] \div 4),
                B64Char((b[1] % 4) * 16 + (b[2] \div 16)),
                B64Char((b[2] % 16) * 4), B64Pad>>
    ELSE <<B64Char(b[1] \div 4),
           B64Char((b[1] % 4) * 16 + (b[2] \div 16)),
           B64Char((b[2] % 16) * 4 + (b[3] \div 64)),
           B64Char(b[3] % 64)>>
         \o B64Encode(SubSeq(b, 4, Len(b)))

\* base64.b64decode(s.encode("utf-8"))
RECURSIVE B64Decode(_)
B64Decode(s) ==
    IF s = <<>> THEN <<>>
    ELSE LET i1 == B64Index(s[1])
             i2 == B64Index(s[2])
             i3 == B64Index(s[3])
             i4 == B64Index(s[4])
             b1 == i1 * 4 + (i2 \div 16)
             b2 == (i2 % 16) * 16 + (i3 \div 4)
             b3 == (i3 % 4) * 64 + i4
         IN  IF s[3] = B64Pad THEN <<b1>>
             ELSE IF s[4] = B64Pad THEN <<b1, b2>>
             ELSE <<b1, b2, b3>> \o B64Decode(SubSeq(s, 5, Len(s)))

-----------------------------------------------------------------------------
(* JSON values of a request body *)

JAbsent == [t |-> "absent", v |-> <<>>]
JNull == [t |-> "null", v |-> <<>>]
JInt == [t |-> "int", v |-> <<>>]
JStr(s) == [t |-> "str", v |-> s]
JObj(o) == [t |-> "obj", v |-> o]

\* Python truthiness of a JSON value (a number stands for a non-zero one)
Truthy(j) ==
    CASE j.t = "str" -> j.v # <<>>
      [] j.t = "int" -> TRUE
      [] j.t = "obj" -> DOMAIN j.v # {}
      [] OTHER -> FALSE

-----------------------------------------------------------------------------
(* Encryption engine: Fernet / MultiFernet *)

\* first byte of every Fernet token
FernetVersion == 128

\* Fernet(key).encrypt(data) with the fresh IV iv: the token authenticates
\* under key and under no other key
FernetEncrypt(key, iv, data) == <<FernetVersion, key, iv>> \o data

FernetValid(key, token) ==
    Len(token) >= 3 /\ token[1] = FernetVersion /\ token[2] = key

\* mutant: the cipher suite encrypts with the last key of the list
CipherSuiteEncrypt_LastKey(keys, iv, data) ==
    FernetEncrypt(keys[Len(keys)], iv, data)

\* MultiFernet.encrypt uses the first Fernet of the list
CipherSuiteEncrypt(keys, iv, data) == FernetEncrypt(keys[1], iv, data)

\* mutant: a single Fernet of the current key instead of the MultiFernet
CipherSuiteDecrypt_CurrentKeyOnly(keys, token) ==
    IF FernetValid(keys[1], token)
    THEN [ok |-> TRUE, data |-> SubSeq(token, 4, Len(token))]
    ELSE [ok |-> FALSE, data |-> <<>>]

\* MultiFernet.decrypt tries the keys in order; raises InvalidToken at the end
CipherSuiteDecrypt(keys, token) ==
    IF \E i \in 1..Len(keys) : FernetValid(keys[i], token)
    THEN [ok |-> TRUE, data |-> SubSeq(token, 4, Len(token))]
    ELSE [ok |-> FALSE, data |-> <<>>]

\* results of a Python call: a returned value or a raised exception
Ret(x) == [exc |-> "", val |-> x]
Raise(e) == [exc |-> e, val |-> <<>>]

\* Python None where a str is expected
None == [some |-> FALSE, v |-> <<>>]
Some(x) == [some |-> TRUE, v |-> x]

encrypt_secret(keys, iv, secret_text) ==
    IF secret_text.t # "str" THEN Raise("TypeError")
    ELSE IF secret_text.v = <<>> THEN Raise("ValueError")
    ELSE Ret(CipherSuiteEncrypt(keys, iv, Utf8Encode(secret_text.v)))

\* a Python bytes object; the other Python values are written as the JSON
\* values are
PyBytes(b) == [t |-> "bytes", v |-> b]

\* mutant: the decrypted bytes are decoded one byte to a character
decrypt_secret_Latin1(keys, encrypted_token) ==
    IF encrypted_token.t # "bytes" THEN Raise("TypeError")
    ELSE LET d == CipherSuiteDecrypt(keys, encrypted_token.v)
         IN  IF d.ok THEN Ret(Some(d.data)) ELSE Ret(None)

\* mutant: the InvalidToken of the cipher suite is not caught
decrypt_secret_Uncaught(keys, encrypted_token) ==
    IF encrypted_token.t # "bytes" THEN Raise("TypeError")
    ELSE LET d == CipherSuiteDecrypt(keys, encrypted_token.v)
         IN  IF d.ok THEN Ret(Some(Utf8Decode(d.data)))
             ELSE Raise("InvalidToken")

\* decrypt_secret: the text, None when no key of the cipher suite validates
\* the token, or the TypeError raised for an input that is not bytes
decrypt_secret(keys, encrypted_token) ==
    IF encrypted_token.t # "bytes" THEN Raise("TypeError")
    ELSE LET d == CipherSuiteDecrypt(keys, encrypted_token.v)
         IN  IF d.ok THEN Ret(Some(Utf8Decode(d.data))) ELSE Ret(None)

-----------------------------------------------------------------------------
(* The Secret document *)

Secret(link_id, encrypted_secret, is_e2ee, mime_type, e2ee_data, created_at) ==
    [link_id |-> link_id, encrypted_secret |-> encrypted_secret,
     is_e2ee |-> is_e2ee, mime_type |-> mime_type, e2ee_data |-> e2ee_data,
     created_at |-> created_at]

\* what retrieve_secret returns for a miss
NoSecret == [link_id |-> 0]

\* mutant: the e2ee object is never written to the document
to_dict_NoE2eeData(self) ==
    [id |-> self.link_id, link_id |-> self.link_id,
     encrypted_secret |-> B64Encode(self.encrypted_secret),
     is_e2ee |-> self.is_e2ee, mime_type |-> self.mime_type,
     created_at |-> self.created_at]

to_dict(self) ==
    LET result ==
            [id |-> self.link_id, link_id |-> self.link_id,
             encrypted_secret |-> B64Encode(self.encrypted_secret),
             is_e2ee |-> self.is_e2ee, mime_type |-> self.mime_type,
             created_at |-> self.created_at]
    IN  IF Truthy(self.e2ee_data)
        THEN [k \in DOMAIN result \cup {"e2ee_data"} |->
                 IF k = "e2ee_data" THEN self.e2ee_data ELSE result[k]]
        ELSE result

from_dict(data) ==
    Secret(data.link_id, B64Decode(data.encrypted_secret), data.is_e2ee,
           data.mime_type,
           IF "e2ee_data" \in DOMAIN data THEN data.e2ee_data ELSE JNull,
           data.created_at)

-----------------------------------------------------------------------------
(* The store: a Cosmos container keyed by document id.  A call fails with   *)
(* "NotFound" (CosmosResourceNotFoundError) or "Error" (any other           *)
(* exception, injected by the argument fault).                             *)

create_item(c, body, fault) ==
    IF fault THEN [exc |-> "Error", c |-> c]
    ELSE [exc |-> "",
          c |-> [i \in DOMAIN c \cup {body.id} |->
                    IF i = body.id THEN body ELSE c[i]]]

read_item(c, item, fault) ==
    IF fault THEN [exc |-> "Error", doc |-> <<>>]
    ELSE IF item \in DOMAIN c THEN [exc |-> "", doc |-> c[item]]
    ELSE [exc |-> "NotFound", doc |-> <<>>]

\* mutant: deleting a document empties the container
delete_item_Truncate(c, item, fault) ==
    IF fault THEN [exc |-> "Error", c |-> c]
    ELSE IF item \in DOMAIN c
         THEN [exc |-> "", c |-> [i \in {} |-> c[i]]]
    ELSE [exc |-> "NotFound", c |-> c]

\* mutant: deleting an absent document succeeds
delete_item_Idempotent(c, item, fault) ==
    IF fault THEN [exc |-> "Error", c |-> c]
    ELSE [exc |-> "", c |-> [i \in DOMAIN c \ {item} |-> c[i]]]

delete_item(c, item, fault) ==
    IF fault THEN [exc |-> "Error", c |-> c]
    ELSE IF item \in DOMAIN c
         THEN [exc |-> "", c |-> [i \in DOMAIN c \ {item} |-> c[i]]]
    ELSE [exc |-> "NotFound", c |-> c]

\* storage.store_encrypted_secret: the link id, or 0 (None) when the store
\* fails; c is the container afterwards
store_encrypted_secret(c, link_id, data, is_e2ee, mime_type, e2ee_data, t, fault) ==
    LET new_secret == Secret(link_id, data, is_e2ee, mime_type, e2ee_data, t)
        r == create_item(c, to_dict(new_secret), fault)
    IN  IF r.exc = "" THEN [link_id |-> link_id, c |-> r.c]
        ELSE [link_id |-> 0, c |-> c]

\* storage.retrieve_secret: the Secret, or NoSecret when the document is
\* absent or the read fails
retrieve_secret(c, link_id, fault) ==
    LET r == read_item(c, link_id, fault)
    IN  IF r.exc = "" THEN from_dict(r.doc) ELSE NoSecret

\* storage.delete_secret: TRUE when the document was deleted
delete_secret(c, link_id, fault) ==
    LET r == delete_item(c, link_id, fault)
    IN  [ok |-> r.exc = "", c |-> r.c]

\* storage.store_encrypted_secret(encrypted_secret_data) of storage.py: the
\* link id, or 0 (None) when the store fails; TypeError when the data is not
\* bytes.  link_id is the uuid4 it generates, t the time.
storage_store_encrypted_secret(c, encrypted_secret_data, link_id, t, fault) ==
    IF encrypted_secret_data.t # "bytes"
    THEN [exc |-> "TypeError", link_id |-> 0, c |-> c]
    ELSE LET new_secret == Secret(link_id, encrypted_secret_data.v, FALSE,
                                  TextPlain, JNull, t)
             r == create_item(c, to_dict(new_secret), fault)
         IN  IF r.exc = "" THEN [exc |-> "", link_id |-> link_id, c |-> r.c]
             ELSE [exc |-> "", link_id |-> 0, c |-> c]

\* mutant: the query also selects the records created at the threshold
query_items_Inclusive(c, expiry_threshold) ==
    {i \in DOMAIN c : c[i].created_at <= expiry_threshold}

\* container.query_items("SELECT * FROM c WHERE c.created_at < threshold"):
\* the ids of the documents selected
query_items(c, expiry_threshold) ==
    {i \in DOMAIN c : c[i].created_at < expiry_threshold}

\* storage.check_secret_exists(link_id) at time t; the link id 0 is the
\* empty string
check_secret_exists(c, link_id, t, fault) ==
    IF link_id = 0 THEN FALSE
    ELSE LET r == read_item(c, link_id, fault)
         IN  r.exc = ""

-----------------------------------------------------------------------------
(* Configuration: the key ring built at startup *)

\* values of an environment variable holding a key: unset, not a Fernet
\* key, or the Fernet key k
EnvUnset == 0
EnvInvalid == -1
\* bound on the Fernet keys of the encryption module taken alone: a third
\* key, for two rotations in a row
MaxCryptoKey == 3
KeyIds == 1..MaxCryptoKey
EnvValues == {EnvUnset, EnvInvalid} \cup 1..MaxKey
\* the values of the two variables for the encryption module taken alone
CryptoEnvValues == {EnvUnset, EnvInvalid} \cup KeyIds

\* mutant: an invalid previous key aborts startup as an invalid current
\* key does
Config_StrictPrevious(MASTER_ENCRYPTION_KEY, MASTER_ENCRYPTION_KEY_PREVIOUS) ==
    IF MASTER_ENCRYPTION_KEY \notin KeyIds THEN Raise("ValueError")
    ELSE IF MASTER_ENCRYPTION_KEY_PREVIOUS = EnvInvalid
         THEN Raise("ValueError")
    ELSE Ret(<<MASTER_ENCRYPTION_KEY>> \o
             (IF MASTER_ENCRYPTION_KEY_PREVIOUS \in KeyIds
              THEN <<MASTER_ENCRYPTION_KEY_PREVIOUS>> ELSE <<>>))

\* class Config: MASTER_ENCRYPTION_KEYS, or the ValueError that aborts startup
Config(MASTER_ENCRYPTION_KEY, MASTER_ENCRYPTION_KEY_PREVIOUS) ==
    IF MASTER_ENCRYPTION_KEY = EnvUnset THEN Raise("ValueError")
    ELSE IF MASTER_ENCRYPTION_KEY = EnvInvalid THEN Raise("ValueError")
    ELSE Ret(<<MASTER_ENCRYPTION_KEY>> \o
             (IF MASTER_ENCRYPTION_KEY_PREVIOUS \in KeyIds
              THEN <<MASTER_ENCRYPTION_KEY_PREVIOUS>> ELSE <<>>))

-----------------------------------------------------------------------------
(* POST /api/share *)

\* the e2ee object of the requests that carry one
SaltS == <<115>>
NonceN == <<110>>
E2eeOk == JObj([salt |-> JStr(SaltS), nonce |-> JStr(NonceN)])

Body(is_json, payload, mime, e2ee) ==
    [is_json |-> is_json, payload |-> payload, mime |-> mime, e2ee |-> e2ee]

\* a payload of MAX_SECRET_LENGTH_BYTES + 1 bytes
Oversized == [i \in 1..(MAX_SECRET_LENGTH_BYTES + 1) |-> 97]
\* a payload of exactly MAX_SECRET_LENGTH_BYTES bytes, one character of
\* which takes two bytes
AtLimit == [i \in 1..(MAX_SECRET_LENGTH_BYTES - 1) |-> IF i = 1 THEN 233 ELSE 97]
\* a payload of MAX_SECRET_LENGTH_BYTES characters that takes one byte more
OverInBytes == [i \in 1..MAX_SECRET_LENGTH_BYTES |-> IF i = 1 THEN 233 ELSE 97]

ValidBodies ==
    { Body(TRUE, JStr(<<104, 105>>), JAbsent, JAbsent),
      Body(TRUE, JStr(AtLimit), JStr(<<97>>), JNull),
      Body(TRUE, JStr(<<120>>), JAbsent, E2eeOk) }

InvalidBodies ==
    { Body(FALSE, JAbsent, JAbsent, JAbsent),
      Body(TRUE, JAbsent, JAbsent, JAbsent),
      Body(TRUE, JStr(<<>>), JAbsent, JAbsent),
      Body(TRUE, JInt, JAbsent, JAbsent),
      Body(TRUE, JStr(<<120>>), JInt, JAbsent),
      Body(TRUE, JStr(<<120>>), JAbsent, JInt),
      Body(TRUE, JStr(<<120>>), JAbsent, JObj([nonce |-> JStr(NonceN)])),
      Body(TRUE, JStr(<<120>>), JAbsent, JObj([salt |-> JStr(SaltS)])),
      Body(TRUE, JStr(<<120>>), JAbsent,
           JObj([salt |-> JInt, nonce |-> JStr(NonceN)])),
      Body(TRUE, JStr(<<120>>), JAbsent,
           JObj([salt |-> JStr(SaltS), nonce |-> JNull])),
      Body(TRUE, JStr(Oversized), JAbsent, JAbsent),
      Body(TRUE, JStr(Oversized), JAbsent, E2eeOk),
      Body(TRUE, JStr(OverInBytes), JAbsent, E2eeOk) }

Bodies == ValidBodies \cup InvalidBodies

\* mutant: every rejection goes through the generic exception handler
PostError_Generic500(status, error, c) ==
    [status |-> 500,
     error |-> "Failed to store secret due to an internal server error.",
     link_id |-> 0, e2ee |-> FALSE, mime |-> JNull, c |-> c,
     encrypted |-> FALSE]

\* the answer of a POST; link_id 0 is JSON null
PostError(status, error, c) ==
    [status |-> status, error |-> error, link_id |-> 0, e2ee |-> FALSE,
     mime |-> JNull, c |-> c, encrypted |-> FALSE]

PostCreated(link_id, is_e2ee, mime_type, c, encrypted) ==
    [status |-> 201, error |-> "", link_id |-> link_id, e2ee |-> is_e2ee,
     mime |-> mime_type, c |-> c, encrypted |-> encrypted]

\* mutant: the length check counts characters, not UTF-8 bytes
ExceedsMaxLength_Chars(data_to_store) ==
    Len(data_to_store) > MAX_SECRET_LENGTH_BYTES

\* mutant: the length check rejects a payload of exactly the maximum
ExceedsMaxLength_OffByOne(data_to_store) ==
    Len(Utf8Encode(data_to_store)) >= MAX_SECRET_LENGTH_BYTES

\* the length check of share_secret_api
ExceedsMaxLength(data_to_store) ==
    Len(Utf8Encode(data_to_store)) > MAX_SECRET_LENGTH_BYTES

\* share_secret_api: the response, the container afterwards (c) and whether
\* encrypt_secret was called (encrypted).  new_id is the uuid4 that
\* generate_unique_link_id would return, iv the IV of the encryption, t the
\* time, fault whether the store call fails.
share_secret_api(data, keys, c, new_id, iv, t, fault) ==
    LET mime_type == IF data.mime.t = "absent" THEN JStr(TextPlain)
                     ELSE data.mime
        payload == IF data.payload.t = "absent" THEN JNull ELSE data.payload
        e2ee_data == IF data.e2ee.t = "absent" THEN JNull ELSE data.e2ee
        is_e2ee == e2ee_data.t # "null"
    IN
    IF ~data.is_json THEN PostError(400, "Request must be JSON", c)
    ELSE IF ~Truthy(payload)
         THEN PostError(400, "Missing 'payload' field in JSON", c)
    ELSE IF payload.t # "str"
         THEN PostError(400, "'payload' must be a string", c)
    ELSE IF mime_type.t # "str"
         THEN PostError(400, "'mime' must be a string", c)
    ELSE IF is_e2ee /\ e2ee_data.t # "obj"
         THEN PostError(400, "'e2ee' must be an object", c)
    ELSE IF is_e2ee /\ "salt" \notin DOMAIN e2ee_data.v
         THEN PostError(400, "Missing 'e2ee.salt' field", c)
    ELSE IF is_e2ee /\ e2ee_data.v.salt.t # "str"
         THEN PostError(400, "'e2ee.salt' must be a string", c)
    ELSE IF is_e2ee /\ "nonce" \notin DOMAIN e2ee_data.v
         THEN PostError(400, "Missing 'e2ee.nonce' field", c)
    ELSE IF is_e2ee /\ e2ee_data.v.nonce.t # "str"
         THEN PostError(400, "'e2ee.nonce' must be a string", c)
    ELSE IF ~Encodable(payload.v)
         THEN PostError(500, "UnicodeEncodeError", c)
    ELSE IF ExceedsMaxLength(payload.v)
         THEN PostError(413, "Secret exceeds maximum length", c)
    ELSE IF is_e2ee
         THEN LET s == store_encrypted_secret(c, new_id,
                           Utf8Encode(payload.v), TRUE, mime_type.v,
                           e2ee_data, t, fault)
              IN  PostCreated(s.link_id, TRUE, mime_type, s.c, FALSE)
    ELSE LET e == encrypt_secret(keys, iv, payload)
         IN  IF e.exc # "" THEN PostError(400, "Invalid input provided.", c)
             ELSE LET s == store_encrypted_secret(c, new_id, e.val, FALSE,
                                mime_type.v, JNull, t, fault)
                  IN  PostCreated(s.link_id, FALSE, mime_type, s.c, TRUE)

-----------------------------------------------------------------------------
(* GET /api/share/secret/<link_id>: the response bodies *)

\* a str of n random URL-safe characters
JRand(n) == [t |-> "rand", v |-> <<n>>]

\* length of one character in json.dumps output (ensure_ascii)
EscLen(cp) ==
    IF cp \in {34, 92, 8, 9, 10, 12, 13} THEN 2
    ELSE IF cp < 32 THEN 6
    ELSE IF cp < 128 THEN 1
    ELSE IF cp < 65536 THEN 6
    ELSE 12

RECURSIVE StrEscLen(_)
StrEscLen(s) == IF s = <<>> THEN 0 ELSE EscLen(Head(s)) + StrEscLen(Tail(s))

\* len(json.dumps(x, separators=(',', ':')).encode('utf-8'))
RECURSIVE JsonLen(_)
RECURSIVE MembersLen(_, _)
JsonLen(j) ==
    CASE j.t = "str" -> 2 + StrEscLen(j.v)
      [] j.t = "rand" -> 2 + j.v[1]
      [] j.t = "obj" ->
            2 + MembersLen(j.v, DOMAIN j.v)
              + (IF DOMAIN j.v = {} THEN 0 ELSE Cardinality(DOMAIN j.v) - 1)
      [] OTHER -> 4

MembersLen(d, keys) ==
    IF keys = {} THEN 0
    ELSE LET k == CHOOSE x \in keys : TRUE
         IN  Len(k) + 3 + JsonLen(d[k]) + MembersLen(d, keys \ {k})

\* the set of (possibly nested) field names of a JSON object
Fields(d) ==
    {<<k>> : k \in DOMAIN d} \cup
    UNION {IF d[k].t = "obj" THEN {<<k, n>> : n \in DOMAIN d[k].v} ELSE {} :
           k \in DOMAIN d}

\* the response body without any field: {}
EmptyDict == [k \in {} |-> JNull]

\* metadata margin of the padding target, and the room pad_response_data
\* reserves for the padding field itself
PaddingMargin == 51200
PaddingReserve == 50

\* mutant: the padding is the whole of token_urlsafe(padding_needed),
\* without the slice that cuts it to padding_needed characters
pad_response_data_Unsliced(response_data) ==
    LET current_size == JsonLen(JObj(response_data))
        target_size == MAX_SECRET_LENGTH_BYTES + PaddingMargin
        padding_needed == target_size - current_size - PaddingReserve
    IN  IF current_size < target_size /\ padding_needed > 0
        THEN [k \in DOMAIN response_data \cup {"_padding"} |->
                 IF k = "_padding"
                 THEN JRand((4 * padding_needed + 2) \div 3)
                 ELSE response_data[k]]
        ELSE response_data

\* pad_response_data, nested in retrieve_secret_api
pad_response_data(response_data) ==
    LET current_size == JsonLen(JObj(response_data))
        target_size == MAX_SECRET_LENGTH_BYTES + PaddingMargin
        padding_needed == target_size - current_size - PaddingReserve
    IN  IF current_size < target_size /\ padding_needed > 0
        THEN [k \in DOMAIN response_data \cup {"_padding"} |->
                 IF k = "_padding" THEN JRand(padding_needed)
                 ELSE response_data[k]]
        ELSE response_data

\* number of characters of urlsafe_b64encode(n bytes) without the '='
B64StrippedLen(n) == (4 * n + 2) \div 3

\* bounds of random.uniform for the delay of a miss, in milliseconds
DelayMinMs == 5
DelayMaxMs == 25

\* bounds of random.randint for the size of the dummy payload
DummyPayloadMin == 100
DummyPayloadMax == 1000

\* mutant: salt and nonce exchanged in the E2EE body
E2eeResponse_Swapped(secret_obj) ==
    [mime |-> JStr(secret_obj.mime_type),
     payload |-> JStr(Utf8Decode(secret_obj.encrypted_secret)),
     e2ee |-> JObj([salt |-> secret_obj.e2ee_data.v.nonce,
                    nonce |-> secret_obj.e2ee_data.v.salt])]

\* the body returned for an E2EE secret
E2eeResponse(secret_obj) ==
    [mime |-> JStr(secret_obj.mime_type),
     payload |-> JStr(Utf8Decode(secret_obj.encrypted_secret)),
     e2ee |-> JObj([salt |-> secret_obj.e2ee_data.v.salt,
                    nonce |-> secret_obj.e2ee_data.v.nonce])]

\* mutant: the stored mime type is dropped for the default one
PlainResponse_DefaultMime(secret_obj, decrypted_secret) ==
    [mime |-> JStr(TextPlain), payload |-> JStr(decrypted_secret.v)]

\* the body returned for a server-encrypted secret that decrypted
PlainResponse(secret_obj, decrypted_secret) ==
    [mime |-> JStr(secret_obj.mime_type), payload |-> JStr(decrypted_secret.v)]

\* the body returned when decryption failed
DecryptFailedResponse == EmptyDict

\* the body returned when retrieve_secret found nothing
DummyResponse(dummy_payload_size) ==
    [mime |-> JStr(TextPlain),
     payload |-> JStr(DummyPayloadText),
     e2ee |-> JObj([payload |-> JRand(B64StrippedLen(dummy_payload_size)),
                    salt |-> JRand(B64StrippedLen(16)),
                    nonce |-> JRand(B64StrippedLen(12))])]

\* what the client receives: Flask answers a HEAD request on a GET route by
\* running the view function and dropping the body
Response(method, status, path, data) ==
    [status |-> status, path |-> path,
     hasBody |-> method = "GET",
     json |-> IF method = "GET" THEN data ELSE EmptyDict]

NoResponse == [status |-> 0, path |-> "none", hasBody |-> FALSE, json |-> EmptyDict]

-----------------------------------------------------------------------------
(* State *)

VARIABLES
    up,          \* the process started (Config and the cipher suite built)
    ring,        \* Config.MASTER_ENCRYPTION_KEYS, newest key first
    container,   \* the Cosmos container: document id -> document
    issued,      \* number of link ids generated so far
    now,         \* the clock
    req,         \* the GET/HEAD requests: request number -> its handler state
    lastPost,    \* the latest POST /api/share: its body and its response
    posted,      \* link id -> the body of the POST that was answered with it
    calc,        \* a call sequence on the encryption module taken alone,
                 \* or a call of pad_response_data taken alone
    calls        \* the calls on the storage module taken alone

vars ==
    <<up, ring, container, issued, now, req, lastPost, posted, calc, calls>>

Reqs == 1..NReq
\* link ids a client can ask for: 0 is an id that is never issued
LinkIds == 0..MaxIds
\* bound on the IVs drawn by Fernet
MaxIV == 1
Methods == {"GET", "HEAD"}

NewReq ==
    [pc |-> "new", method |-> "GET", id |-> 0, obj |-> NoSecret,
     dec |-> None, decCalls |-> 0, delCalls |-> 0, delOk |-> FALSE,
     resp |-> NoResponse, prior |-> {}, priorDel |-> {}, cat |-> "unknown",
     slept |-> <<>>]

NoPost ==
    [body |-> Body(FALSE, JAbsent, JAbsent, JAbsent), status |-> 0,
     link_id |-> 0, e2ee |-> FALSE]

\* calls of retrieve_and_delete_secret that can overlap
NCalls == 2
Calls == 1..NCalls

\* a retrieve_and_delete_secret call: its link id, the encrypted data it
\* read, what the last store call raised, what it returned or raised, the
\* calls that had returned when it began, and whether the record it read
\* was older than the expiry window
NewCall ==
    [pc |-> "new", id |-> 0, data |-> <<>>, exc |-> "", result |-> None,
     raised |-> "", prior |-> {}, expired |-> FALSE]

\* a cleanup_expired_secrets run: the threshold, the ids still to delete,
\* the ids it deleted, whether a store call failed, the count it returned
NoSweep ==
    [pc |-> "idle", expiry_threshold |-> 0, expired_items |-> <<>>,
     removed_count |-> 0, deleted |-> {}, error |-> FALSE, result |-> 0]

\* a check_secret_exists call: its link id and result, and whether at that
\* moment the record was stored and older than the expiry window
NoCheck ==
    [pc |-> "idle", id |-> 0, result |-> FALSE, stored |-> FALSE,
     expired |-> FALSE, fault |-> FALSE]

\* no call on the storage module yet; stored maps the link ids that
\* store_encrypted_secret returned to the data stored under them
NoCalls ==
    [stored |-> [i \in {} |-> <<>>], rd |-> [k \in Calls |-> NewCall],
     sweep |-> NoSweep, check |-> NoCheck]

\* no call on the encryption module yet
NoCalc ==
    [pc |-> "idle", text |-> <<>>, ring |-> <<>>, token |-> <<>>,
     input |-> JNull, result |-> None, exc |-> "", env |-> <<>>,
     rings |-> <<>>]

Init ==
    /\ up = TRUE
    /\ ring = <<1>>
    /\ container = [i \in {} |-> NoSecret]
    /\ issued = 0
    /\ now = 0
    /\ req = [r \in Reqs |-> NewReq]
    /\ lastPost = NoPost
    /\ posted = [i \in {} |-> NoPost]
    /\ calc = NoCalc
    /\ calls = NoCalls

InFlight(r) == req[r].pc \notin {"new", "done"}

\* the lifecycle state of a link id, as the spec names them: never answered
\* to a client (unknown), deleted by a retrieval (consumed), past the expiry
\* window (expired), else stored: E2EE (live_e2ee), decryptable under the
\* ring (live) or not (undecryptable)
Category(link_id) ==
    IF link_id \notin DOMAIN posted THEN "unknown"
    ELSE IF \E q \in Reqs : req[q].delOk /\ req[q].id = link_id
         THEN "consumed"
    ELSE IF link_id \notin DOMAIN container THEN "expired"
    ELSE IF now - container[link_id].created_at >= ExpiryWindow THEN "expired"
    ELSE IF container[link_id].is_e2ee THEN "live_e2ee"
    ELSE IF decrypt_secret(ring,
                PyBytes(from_dict(container[link_id]).encrypted_secret)).val
            # None
         THEN "live"
    ELSE "undecryptable"

-----------------------------------------------------------------------------
(* Actions *)

\* mutant: the link id is not fresh, the first id is handed out again
generate_unique_link_id_Reused(n) == 1

\* generate_unique_link_id: a uuid4, different from the n ids handed out
\* before
generate_unique_link_id(n) == n + 1

\* POST /api/share with body data
Post(data, iv, fault) ==
    /\ up
    /\ \E a \in {share_secret_api(data, ring, container,
                                  generate_unique_link_id(issued), iv,
                                  now, fault)} :
           /\ container' = a.c
           /\ issued' = IF a.status = 201 THEN issued + 1 ELSE issued
           /\ lastPost' = [body |-> data, status |-> a.status,
                           link_id |-> a.link_id, e2ee |-> a.e2ee]
           /\ posted' = IF a.status = 201 /\ a.link_id # 0
                        THEN [i \in DOMAIN posted \cup {a.link_id} |->
                                 IF i = a.link_id
                                 THEN [body |-> data, e2ee |-> a.e2ee,
                                       mime |-> a.mime,
                                       encrypted |-> a.encrypted]
                                 ELSE posted[i]]
                        ELSE posted
    /\ UNCHANGED <<calc, calls, up, ring, now, req>>

\* POST /api/share while fewer than MaxIds link ids were handed out
Share(data, iv, fault) == issued < MaxIds /\ Post(data, iv, fault)

\* mutant: retrieve_secret memoized per link id, so that a request is served
\* the Secret an earlier request fetched
Retrieve_Cached(r, method, link_id, fault) ==
    /\ up
    /\ req[r].pc = "new"
    /\ \A q \in Reqs : q < r => req[q].pc # "new"
    /\ req' = [req EXCEPT ![r] =
                 [@ EXCEPT !.pc = "fetched", !.method = method,
                           !.id = link_id,
                           !.obj = IF \E q \in Reqs : /\ req[q].id = link_id
                                                     /\ req[q].obj # NoSecret
                                   THEN req[CHOOSE q \in Reqs :
                                              /\ req[q].id = link_id
                                              /\ req[q].obj # NoSecret].obj
                                   ELSE retrieve_secret(container, link_id,
                                                        fault),
                           !.cat = Category(link_id),
                           !.prior = {q \in Reqs : req[q].pc = "done"},
                           !.priorDel = {q \in Reqs : req[q].delOk
                                                     /\ req[q].id = link_id}]]
    /\ UNCHANGED <<calc, calls, up, ring, container, issued, now, lastPost, posted>>

\* a GET or HEAD request arrives and the handler calls retrieve_secret
Retrieve(r, method, link_id, fault) ==
    /\ up
    /\ req[r].pc = "new"
    /\ \A q \in Reqs : q < r => req[q].pc # "new"
    /\ req' = [req EXCEPT ![r] =
                 [@ EXCEPT !.pc = "fetched", !.method = method,
                           !.id = link_id,
                           !.obj = retrieve_secret(container, link_id, fault),
                           !.cat = Category(link_id),
                           !.prior = {q \in Reqs : req[q].pc = "done"},
                           !.priorDel = {q \in Reqs : req[q].delOk
                                                     /\ req[q].id = link_id}]]
    /\ UNCHANGED <<calc, calls, up, ring, container, issued, now, lastPost, posted>>

\* mutant: a HEAD request that finds nothing is answered 404
Miss_Head404(r, delay_ms, dummy_payload_size) ==
    /\ req[r].pc = "fetched"
    /\ req[r].obj = NoSecret
    /\ req' = [req EXCEPT ![r] =
                 [@ EXCEPT !.pc = "done",
                           !.slept = Append(@, delay_ms),
                           !.resp = Response(req[r].method,
                              IF req[r].method = "HEAD" THEN 404 ELSE 200,
                              "miss",
                              pad_response_data(
                                  DummyResponse(dummy_payload_size)))]]
    /\ UNCHANGED <<calc, calls, up, ring, container, issued, now, lastPost, posted>>

\* mutant: a miss is answered without the delay
Miss_NoDelay(r, delay_ms, dummy_payload_size) ==
    /\ req[r].pc = "fetched"
    /\ req[r].obj = NoSecret
    /\ req' = [req EXCEPT ![r] =
                 [@ EXCEPT !.pc = "done",
                           !.resp = Response(req[r].method, 200, "miss",
                              pad_response_data(
                                  DummyResponse(dummy_payload_size)))]]
    /\ UNCHANGED <<calc, calls, up, ring, container, issued, now, lastPost, posted>>

\* nothing found: the handler sleeps delay_ms milliseconds, builds the dummy
\* body and answers
Miss(r, delay_ms, dummy_payload_size) ==
    /\ req[r].pc = "fetched"
    /\ req[r].obj = NoSecret
    /\ req' = [req EXCEPT ![r] =
                 [@ EXCEPT !.pc = "done",
                           !.slept = Append(@, delay_ms),
                           !.resp = Response(req[r].method, 200, "miss",
                              pad_response_data(
                                  DummyResponse(dummy_payload_size)))]]
    /\ UNCHANGED <<calc, calls, up, ring, container, issued, now, lastPost, posted>>

\* a server-encrypted secret was found: the handler calls decrypt_secret
\* with the bytes from_dict decoded, so that no TypeError can be raised
Decrypt(r) ==
    /\ req[r].pc = "fetched"
    /\ req[r].obj # NoSecret
    /\ ~req[r].obj.is_e2ee
    /\ req' = [req EXCEPT ![r] =
                 [@ EXCEPT !.pc = "decrypted",
                           !.dec = decrypt_secret(ring,
                                       PyBytes(req[r].obj.encrypted_secret)
                                   ).val,
                           !.decCalls = @ + 1]]
    /\ UNCHANGED <<calc, calls, up, ring, container, issued, now, lastPost, posted>>

\* mutant: delete_secret is called for E2EE secrets only
Delete_OnlyE2ee(r, fault) ==
    /\ \/ req[r].pc = "fetched" /\ req[r].obj # NoSecret /\ req[r].obj.is_e2ee
       \/ req[r].pc = "decrypted"
    /\ IF req[r].obj.is_e2ee
       THEN \E d \in {delete_secret(container, req[r].id, fault)} :
               /\ container' = d.c
               /\ req' = [req EXCEPT ![r] =
                            [@ EXCEPT !.pc = "deleted", !.delOk = d.ok,
                                      !.delCalls = @ + 1]]
       ELSE /\ container' = container
            /\ req' = [req EXCEPT ![r] = [@ EXCEPT !.pc = "deleted"]]
    /\ UNCHANGED <<calc, calls, up, ring, issued, now, lastPost, posted>>

\* mutant: delete_secret is not called for E2EE secrets
Delete_SkipE2ee(r, fault) ==
    /\ \/ req[r].pc = "fetched" /\ req[r].obj # NoSecret /\ req[r].obj.is_e2ee
       \/ req[r].pc = "decrypted"
    /\ IF ~req[r].obj.is_e2ee
       THEN \E d \in {delete_secret(container, req[r].id, fault)} :
               /\ container' = d.c
               /\ req' = [req EXCEPT ![r] =
                            [@ EXCEPT !.pc = "deleted", !.delOk = d.ok,
                                      !.delCalls = @ + 1]]
       ELSE /\ container' = container
            /\ req' = [req EXCEPT ![r] = [@ EXCEPT !.pc = "deleted"]]
    /\ UNCHANGED <<calc, calls, up, ring, issued, now, lastPost, posted>>

\* mutant: delete_secret is not called when decrypt_secret returned None
Delete_OnlyOnSuccess(r, fault) ==
    /\ \/ req[r].pc = "fetched" /\ req[r].obj # NoSecret /\ req[r].obj.is_e2ee
       \/ req[r].pc = "decrypted"
    /\ IF req[r].obj.is_e2ee \/ req[r].dec # None
       THEN \E d \in {delete_secret(container, req[r].id, fault)} :
               /\ container' = d.c
               /\ req' = [req EXCEPT ![r] =
                            [@ EXCEPT !.pc = "deleted", !.delOk = d.ok,
                                      !.delCalls = @ + 1]]
       ELSE /\ container' = container
            /\ req' = [req EXCEPT ![r] = [@ EXCEPT !.pc = "deleted"]]
    /\ UNCHANGED <<calc, calls, up, ring, issued, now, lastPost, posted>>

\* mutant: delete_secret reports success before the store has removed the
\* document
Delete_NotDurable(r, fault) ==
    /\ \/ req[r].pc = "fetched" /\ req[r].obj # NoSecret /\ req[r].obj.is_e2ee
       \/ req[r].pc = "decrypted"
    /\ req' = [req EXCEPT ![r] =
                 [@ EXCEPT !.pc = "deleted", !.delOk = ~fault,
                           !.delCalls = @ + 1]]
    /\ UNCHANGED <<calc, calls, up, ring, container, issued, now, lastPost, posted>>

\* the handler calls delete_secret: for an E2EE secret right after the
\* lookup, otherwise after decrypt_secret, whatever it returned
Delete(r, fault) ==
    /\ \/ req[r].pc = "fetched" /\ req[r].obj # NoSecret /\ req[r].obj.is_e2ee
       \/ req[r].pc = "decrypted"
    /\ \E d \in {delete_secret(container, req[r].id, fault)} :
           /\ container' = d.c
           /\ req' = [req EXCEPT ![r] =
                        [@ EXCEPT !.pc = "deleted", !.delOk = d.ok,
                                  !.delCalls = @ + 1]]
    /\ UNCHANGED <<calc, calls, up, ring, issued, now, lastPost, posted>>

\* the body the handler returns once delete_secret has returned
HitResponse(secret_obj, decrypted_secret) ==
    IF secret_obj.is_e2ee
    THEN [path |-> "e2ee", data |-> pad_response_data(E2eeResponse(secret_obj))]
    ELSE IF decrypted_secret # None
    THEN [path |-> "plain",
          data |-> pad_response_data(
                       PlainResponse(secret_obj, decrypted_secret))]
    ELSE [path |-> "corrupt", data |-> pad_response_data(DecryptFailedResponse)]

\* mutant: a decryption failure is answered 500
Respond_500OnCorrupt(r) ==
    /\ req[r].pc = "deleted"
    /\ LET h == HitResponse(req[r].obj, req[r].dec)
       IN  req' = [req EXCEPT ![r] =
                     [@ EXCEPT !.pc = "done",
                               !.resp = Response(req[r].method,
                                   IF h.path = "corrupt" THEN 500 ELSE 200,
                                   h.path, h.data)]]
    /\ UNCHANGED <<calc, calls, up, ring, container, issued, now, lastPost, posted>>

\* mutant: a failed delete_secret is answered 500 without the secret
Respond_500OnDeleteFailure(r) ==
    /\ req[r].pc = "deleted"
    /\ LET h == HitResponse(req[r].obj, req[r].dec)
       IN  req' = [req EXCEPT ![r] =
                     [@ EXCEPT !.pc = "done",
                               !.resp = IF req[r].delOk
                                        THEN Response(req[r].method, 200,
                                                      h.path, h.data)
                                        ELSE Response(req[r].method, 500,
                                                      "error", EmptyDict)]]
    /\ UNCHANGED <<calc, calls, up, ring, container, issued, now, lastPost, posted>>

\* the handler pads the body and answers 200
Respond(r) ==
    /\ req[r].pc = "deleted"
    /\ LET h == HitResponse(req[r].obj, req[r].dec)
       IN  req' = [req EXCEPT ![r] =
                     [@ EXCEPT !.pc = "done",
                               !.resp = Response(req[r].method, 200, h.path,
                                                 h.data)]]
    /\ UNCHANGED <<calc, calls, up, ring, container, issued, now, lastPost, posted>>

\* the operator restarts the process with new key material; requests in
\* flight do not survive a restart, so it happens between requests
Restart(key, previous) ==
    /\ \A r \in Reqs : ~InFlight(r)
    /\ LET cfg == Config(key, previous)
       IN  /\ up' = (cfg.exc = "")
           /\ ring' = cfg.val
    /\ UNCHANGED <<calc, calls, container, issued, now, req, lastPost, posted>>

\* time passes
Tick ==
    /\ now < MaxTime
    /\ now' = now + 1
    /\ UNCHANGED <<calc, calls, up, ring, container, issued, req, lastPost, posted>>

\* the container's TTL removes a document that outlived the expiry window
TtlExpire(item) ==
    /\ item \in DOMAIN container
    /\ now - container[item].created_at >= ExpiryWindow
    /\ container' = [i \in DOMAIN container \ {item} |-> container[i]]
    /\ UNCHANGED <<calc, calls, up, ring, issued, now, req, lastPost, posted>>

\* the service: the POSTs are those with a valid body, the only ones that
\* change the state of the service (SpecPost below has the others)
Next ==
    \/ \E data \in ValidBodies, iv \in 1..MaxIV, fault \in BOOLEAN :
          Share(data, iv, fault)
    \/ \E r \in Reqs, m \in Methods, id \in LinkIds, fault \in BOOLEAN :
          Retrieve(r, m, id, fault)
    \/ \E r \in Reqs, delay_ms \in {DelayMinMs, DelayMaxMs},
          n \in {DummyPayloadMin, DummyPayloadMax} : Miss(r, delay_ms, n)
    \/ \E r \in Reqs : Decrypt(r)
    \/ \E r \in Reqs, fault \in BOOLEAN : Delete(r, fault)
    \/ \E r \in Reqs : Respond(r)
    \/ \E key \in EnvValues, previous \in EnvValues : Restart(key, previous)
    \/ Tick
    \/ \E item \in LinkIds : TtlExpire(item)

Spec == Init /\ [][Next]_vars

\* POST /api/share taken alone, with every kind of body
NextPost ==
    \/ \E data \in Bodies, iv \in 1..MaxIV, fault \in BOOLEAN :
          Share(data, iv, fault)
    \/ \E key \in EnvValues, previous \in EnvValues : Restart(key, previous)
    \/ Tick
    \/ \E item \in LinkIds : TtlExpire(item)

SpecPost == Init /\ [][NextPost]_vars

TypeOK ==
    /\ up \in BOOLEAN
    /\ issued \in 0..MaxIds
    /\ now \in 0..MaxTime
    /\ DOMAIN container \subseteq 1..issued

-----------------------------------------------------------------------------
(* The encryption module taken alone: encrypt_secret, a restart with new    *)
(* key material, decrypt_secret                                             *)

\* bound on the length of the plaintexts
MaxTextLen == 2
\* characters that take one, two and three bytes in UTF-8: a, e-acute, euro
Alphabet == {97, 233, 8364}
Plaintexts == UNION {[1..n -> Alphabet] : n \in 0..MaxTextLen}

\* the key rings Config can build
ValidRings ==
    {cfg.val : cfg \in {c \in {Config(k, p) : k \in EnvValues, p \in EnvValues} :
                           c.exc = ""}}

InitCrypto ==
    /\ up = TRUE
    /\ ring \in ValidRings
    /\ container = [i \in {} |-> NoSecret]
    /\ issued = 0
    /\ now = 0
    /\ req = [r \in Reqs |-> NewReq]
    /\ lastPost = NoPost
    /\ posted = [i \in {} |-> NoPost]
    /\ calc = NoCalc
    /\ calls = NoCalls

\* encrypt_secret(secret_text) under the current cipher suite
CryptoEncrypt(secret_text, iv) ==
    /\ up
    /\ calc.pc = "idle"
    /\ \E e \in {encrypt_secret(ring, iv, JStr(secret_text))} :
           calc' = IF e.exc # ""
                   THEN [calc EXCEPT !.pc = "rejected", !.text = secret_text]
                   ELSE [calc EXCEPT !.pc = "encrypted", !.text = secret_text,
                                     !.ring = ring, !.token = e.val]
    /\ UNCHANGED <<calls, up, ring, container, issued, now, req, lastPost,
                   posted>>

\* the process is restarted with new key material while the token is kept;
\* env is the environment it was started with
CryptoRestart(key, previous) ==
    /\ calc.pc = "encrypted"
    /\ LET cfg == Config(key, previous)
       IN  /\ up' = (cfg.exc = "")
           /\ ring' = cfg.val
    /\ calc' = [calc EXCEPT !.env = <<key, previous>>]
    /\ UNCHANGED <<calls, container, issued, now, req, lastPost, posted>>

\* the outcome of a decrypt_secret call d on the input x
Decrypted(pc, x, d) ==
    [calc EXCEPT !.pc = pc, !.input = x, !.exc = d.exc,
                 !.result = IF d.exc = "" THEN d.val ELSE None]

\* decrypt_secret(token) under the current cipher suite
CryptoDecrypt ==
    /\ up
    /\ calc.pc = "encrypted"
    /\ \E d \in {decrypt_secret(ring, PyBytes(calc.token))} :
           calc' = Decrypted("decrypted", PyBytes(calc.token), d)
    /\ UNCHANGED <<calls, up, ring, container, issued, now, req, lastPost,
                   posted>>

\* tokens this process did not make: made under the key k (of the ring or
\* not), then left whole, cut short or with another first byte; the tag 0
\* stands for a signature that no key produces (a tampered token)
ForeignTokens ==
    {<<>>, <<105, 110, 118>>} \cup
    UNION {{FernetEncrypt(k, 1, <<97>>),
            SubSeq(FernetEncrypt(k, 1, <<97>>), 1, 2),
            <<0>> \o Tail(FernetEncrypt(k, 1, <<97>>))} : k \in 0..(MaxCryptoKey + 1)}

\* what a caller can pass to decrypt_secret: bytes, a str, a number, None
ForeignInputs ==
    {PyBytes(b) : b \in ForeignTokens} \cup {JStr(<<120>>), JInt, JNull}

\* decrypt_secret(encrypted_token) for an input from elsewhere
CryptoDecryptInput(encrypted_token) ==
    /\ up
    /\ calc.pc = "idle"
    /\ \E d \in {decrypt_secret(ring, encrypted_token)} :
           calc' = [Decrypted("answered", encrypted_token, d)
                       EXCEPT !.ring = ring]
    /\ UNCHANGED <<calls, up, ring, container, issued, now, req, lastPost,
                   posted>>

NextCrypto ==
    \/ \E secret_text \in Plaintexts, iv \in 1..MaxIV :
          CryptoEncrypt(secret_text, iv)
    \/ \E key \in EnvValues, previous \in EnvValues :
          CryptoRestart(key, previous)
    \/ CryptoDecrypt
    \/ \E encrypted_token \in ForeignInputs :
          CryptoDecryptInput(encrypted_token)

SpecCrypto == InitCrypto /\ [][NextCrypto]_vars

-----------------------------------------------------------------------------
(* Key rotation: the encryption module over several restarts between an     *)
(* encrypt_secret and the decrypt_secret of its token, with a third key     *)

\* restarts of the process between an encryption and the decryption
MaxRestarts == 2

\* mutant: a restart puts the new current key in front of the ring the
\* process had, so that older keys stay
CryptoRotate_Accumulates(key, previous) ==
    /\ calc.pc = "encrypted"
    /\ Len(calc.rings) < MaxRestarts
    /\ LET cfg == Config(key, previous)
       IN  /\ up' = (cfg.exc = "")
           /\ ring' = IF cfg.exc = "" THEN <<key>> \o ring ELSE cfg.val
           /\ calc' = [calc EXCEPT !.env = <<key, previous>>,
                                   !.rings = Append(@, cfg.val)]
    /\ UNCHANGED <<calls, container, issued, now, req, lastPost, posted>>

\* the process is restarted with new key material while the token is kept;
\* env is the environment it was started with, rings the key rings that
\* the restarts since the encryption built
CryptoRotate(key, previous) ==
    /\ calc.pc = "encrypted"
    /\ Len(calc.rings) < MaxRestarts
    /\ LET cfg == Config(key, previous)
       IN  /\ up' = (cfg.exc = "")
           /\ ring' = cfg.val
           /\ calc' = [calc EXCEPT !.env = <<key, previous>>,
                                   !.rings = Append(@, cfg.val)]
    /\ UNCHANGED <<calls, container, issued, now, req, lastPost, posted>>

\* one text, "hi": the rotation does not depend on the text
NextRotate ==
    \/ CryptoEncrypt(<<104, 105>>, 1)
    \/ \E key \in CryptoEnvValues, previous \in CryptoEnvValues :
          CryptoRotate(key, previous)
    \/ CryptoDecrypt

SpecRotate == InitCrypto /\ [][NextRotate]_vars

-----------------------------------------------------------------------------
(* pad_response_data taken alone, on response bodies of the shapes the      *)
(* handler builds, with payloads that bring the serialized size up to and   *)
(* past the padding target                                                  *)

\* how far below and above target - 50 the sizes of the inputs range
MaxPadSlack == 60

\* a hit body whose payload is a str of n URL-safe characters
PlainBody(n) == [mime |-> JStr(TextPlain), payload |-> JRand(n)]
E2eeBody(n) ==
    [mime |-> JStr(TextPlain), payload |-> JRand(n),
     e2ee |-> JObj([salt |-> JStr(SaltS), nonce |-> JStr(NonceN)])]

\* the payload lengths whose bodies measure within MaxPadSlack of
\* target - 50, given the size of the body with an empty payload
NearTarget(empty_size) ==
    LET edge == MAX_SECRET_LENGTH_BYTES + PaddingMargin - PaddingReserve
                    - empty_size
    IN  (edge - MaxPadSlack)..(edge + MaxPadSlack)

\* the response bodies padded
PadInputs ==
    {EmptyDict}
    \cup {[mime |-> JStr(TextPlain), payload |-> JStr(t)] :
             t \in Plaintexts \ {<<>>}}
    \cup {DummyResponse(n) : n \in {DummyPayloadMin, DummyPayloadMax}}
    \cup {PlainBody(n) : n \in NearTarget(JsonLen(JObj(PlainBody(0))))}
    \cup {E2eeBody(n) : n \in NearTarget(JsonLen(JObj(E2eeBody(0))))}

InitPad ==
    /\ up = TRUE
    /\ ring = <<1>>
    /\ container = [i \in {} |-> NoSecret]
    /\ issued = 0
    /\ now = 0
    /\ req = [r \in Reqs |-> NewReq]
    /\ lastPost = NoPost
    /\ posted = [i \in {} |-> NoPost]
    /\ \E response_data \in PadInputs :
           calc = [pc |-> "built", response_data |-> response_data,
                   padded |-> EmptyDict]
    /\ calls = NoCalls

\* pad_response_data(response_data)
PadResponse ==
    /\ calc.pc = "built"
    /\ calc' = [calc EXCEPT !.pc = "padded",
                            !.padded = pad_response_data(calc.response_data)]
    /\ UNCHANGED <<calls, up, ring, container, issued, now, req, lastPost,
                   posted>>

NextPad == PadResponse

SpecPad == InitPad /\ [][NextPad]_vars

-----------------------------------------------------------------------------
(* The storage module taken alone: store_encrypted_secret,                  *)
(* retrieve_and_delete_secret, cleanup_expired_secrets, check_secret_exists *)

\* bound on the link ids store_encrypted_secret hands out
MaxStoreIds == 2
\* bound on the clock, past the expiry window
MaxStoreTime == 2
\* the encrypted data stored: "s" and "t"
StoreData == {PyBytes(<<115>>), PyBytes(<<116>>)}
\* link ids a caller can pass: 0 is the empty string
StoreIds == 0..MaxStoreIds
\* a link id that is not a str, such as None or 123
NotAStr == -1
\* what a caller can pass to retrieve_and_delete_secret
RetrieveIds == StoreIds \cup {NotAStr}

\* store_encrypted_secret(encrypted_secret_data)
StoreSecret(encrypted_secret_data, fault) ==
    /\ issued < MaxStoreIds
    /\ \E s \in {storage_store_encrypted_secret(container,
                       encrypted_secret_data,
                       generate_unique_link_id(issued), now, fault)} :
           /\ container' = s.c
           /\ issued' = IF s.exc = "" THEN issued + 1 ELSE issued
           /\ calls' = IF s.link_id # 0
                       THEN [calls EXCEPT !.stored =
                               [i \in DOMAIN @ \cup {s.link_id} |->
                                   IF i = s.link_id
                                   THEN encrypted_secret_data.v ELSE @[i]]]
                       ELSE calls
    /\ UNCHANGED <<calc, up, ring, now, req, lastPost, posted>>

\* the except clauses of retrieve_and_delete_secret with only the one for
\* CosmosResourceNotFoundError: any other error leaves the function
RetrieveAndDeleteCaught_OnlyNotFound(exc) ==
    IF exc = "NotFound" THEN Ret(None) ELSE Raise(exc)

\* the except clauses of retrieve_and_delete_secret: a missing record and
\* any other exception of a store call are logged and answered with None
RetrieveAndDeleteCaught(exc) == Ret(None)

\* retrieve_and_delete_secret(link_id), up to the store read: an empty id,
\* an id that is not a str and a failed read return None, else the
\* encrypted data is kept
RetrieveAndDeleteRead(k, link_id, fault) ==
    /\ calls.rd[k].pc = "new"
    /\ \A q \in Calls : q < k => calls.rd[q].pc # "new"
    /\ \E r \in {read_item(container, link_id, fault)} :
           calls' = [calls EXCEPT !.rd[k] =
                       LET began == [calls.rd[k] EXCEPT
                                       !.id = link_id,
                                       !.prior = {q \in Calls :
                                                   calls.rd[q].pc = "done"}]
                           caught == RetrieveAndDeleteCaught(r.exc)
                       IN  IF link_id = 0 \/ link_id = NotAStr
                           THEN [began EXCEPT !.pc = "done"]
                           ELSE IF r.exc = ""
                           THEN [began EXCEPT
                                   !.pc = "read",
                                   !.data = from_dict(r.doc).encrypted_secret,
                                   !.expired =
                                       now - from_dict(r.doc).created_at
                                           > ExpiryWindow]
                           ELSE [began EXCEPT !.pc = "done", !.exc = r.exc,
                                              !.result = caught.val,
                                              !.raised = caught.exc]]
    /\ UNCHANGED <<calc, up, ring, container, issued, now, req, lastPost,
                   posted>>

\* retrieve_and_delete_secret, the store delete and the return: the data
\* when the delete succeeded, None when it raised
RetrieveAndDeleteDelete(k, fault) ==
    /\ calls.rd[k].pc = "read"
    /\ \E d \in {delete_item(container, calls.rd[k].id, fault)} :
           /\ container' = d.c
           /\ calls' = [calls EXCEPT !.rd[k] =
                          LET caught == RetrieveAndDeleteCaught(d.exc)
                          IN  [@ EXCEPT !.pc = "done", !.exc = d.exc,
                                        !.result = IF d.exc = ""
                                                   THEN Some(calls.rd[k].data)
                                                   ELSE caught.val,
                                        !.raised = IF d.exc = "" THEN ""
                                                   ELSE caught.exc]]
    /\ UNCHANGED <<calc, up, ring, issued, now, req, lastPost, posted>>

\* the orders in which a query can list the ids of S
ListsOf(S) ==
    {l \in [1..Cardinality(S) -> S] :
        \A i, j \in 1..Cardinality(S) : i # j => l[i] # l[j]}

\* cleanup_expired_secrets, up to the query: the threshold and the expired
\* items; a failed query makes it return 0
CleanupQuery(fault) ==
    /\ calls.sweep.pc = "idle"
    /\ LET expiry_threshold == now - ExpiryWindow
       IN  IF fault
           THEN calls' = [calls EXCEPT !.sweep =
                            [@ EXCEPT !.pc = "done", !.error = TRUE,
                                      !.expiry_threshold = expiry_threshold,
                                      !.result = 0]]
           ELSE \E expired_items \in
                      ListsOf(query_items(container, expiry_threshold)) :
                   calls' = [calls EXCEPT !.sweep =
                               [@ EXCEPT !.pc = "deleting",
                                         !.expiry_threshold = expiry_threshold,
                                         !.expired_items = expired_items]]
    /\ UNCHANGED <<calc, up, ring, container, issued, now, req, lastPost,
                   posted>>

\* cleanup_expired_secrets, one turn of the delete loop: NotFound is passed
\* over, any other error ends the run with 0
CleanupDelete(fault) ==
    /\ calls.sweep.pc = "deleting"
    /\ calls.sweep.expired_items # <<>>
    /\ LET item == Head(calls.sweep.expired_items)
       IN  \E d \in {delete_item(container, item, fault)} :
               /\ container' = d.c
               /\ calls' = [calls EXCEPT !.sweep =
                     IF d.exc = ""
                     THEN [@ EXCEPT !.expired_items = Tail(@),
                                    !.removed_count = @ + 1,
                                    !.deleted = @ \cup {item}]
                     ELSE IF d.exc = "NotFound"
                     THEN [@ EXCEPT !.expired_items = Tail(@)]
                     ELSE [@ EXCEPT !.pc = "done", !.error = TRUE,
                                    !.result = 0]]
    /\ UNCHANGED <<calc, up, ring, issued, now, req, lastPost, posted>>

\* cleanup_expired_secrets returns removed_count
CleanupReturn ==
    /\ calls.sweep.pc = "deleting"
    /\ calls.sweep.expired_items = <<>>
    /\ calls' = [calls EXCEPT !.sweep =
                   [@ EXCEPT !.pc = "done",
                             !.result = calls.sweep.removed_count]]
    /\ UNCHANGED <<calc, up, ring, container, issued, now, req, lastPost,
                   posted>>

\* check_secret_exists(link_id)
CheckSecretExists(link_id, fault) ==
    /\ calls.check.pc = "idle"
    /\ calls' = [calls EXCEPT !.check =
                   [pc |-> "done", id |-> link_id,
                    result |-> check_secret_exists(container, link_id, now,
                                                   fault),
                    stored |-> link_id \in DOMAIN container,
                    expired |-> /\ link_id \in DOMAIN container
                                /\ now - container[link_id].created_at
                                       > ExpiryWindow,
                    fault |-> fault]]
    /\ UNCHANGED <<calc, up, ring, container, issued, now, req, lastPost,
                   posted>>

\* time passes
StoreTick ==
    /\ now < MaxStoreTime
    /\ now' = now + 1
    /\ UNCHANGED <<calc, calls, up, ring, container, issued, req, lastPost,
                   posted>>

\* the expiry sweep and the existence check beside stores, the clock and
\* the container's TTL
NextSweep ==
    \/ \E fault \in BOOLEAN : StoreSecret(PyBytes(<<115>>), fault)
    \/ StoreTick
    \/ \E item \in 1..MaxStoreIds : TtlExpire(item)
    \/ \E fault \in BOOLEAN : CleanupQuery(fault)
    \/ \E fault \in BOOLEAN : CleanupDelete(fault)
    \/ CleanupReturn
    \/ \E link_id \in StoreIds, fault \in BOOLEAN :
          CheckSecretExists(link_id, fault)

SpecSweep == Init /\ [][NextSweep]_vars

\* overlapping retrieve_and_delete_secret calls beside stores
NextRetrieve ==
    \/ \E data \in StoreData, fault \in BOOLEAN : StoreSecret(data, fault)
    \/ \E k \in Calls, link_id \in RetrieveIds, fault \in BOOLEAN :
          RetrieveAndDeleteRead(k, link_id, fault)
    \/ \E k \in Calls, fault \in BOOLEAN : RetrieveAndDeleteDelete(k, fault)

SpecRetrieve == Init /\ [][NextRetrieve]_vars

\* retrieve_and_delete_secret calls beside stores, the clock and the
\* container's TTL
NextExpiry ==
    \/ StoreSecret(PyBytes(<<115>>), FALSE)
    \/ \E k \in Calls, link_id \in 1..MaxStoreIds :
          RetrieveAndDeleteRead(k, link_id, FALSE)
    \/ \E k \in Calls : RetrieveAndDeleteDelete(k, FALSE)
    \/ StoreTick
    \/ \E item \in 1..MaxStoreIds : TtlExpire(item)

SpecExpiry == Init /\ [][NextExpiry]_vars

-----------------------------------------------------------------------------
(* The life of a record: the service with a second link id, so that POSTs   *)
(* follow the end of a record, beside the expiry sweep; one body, no store  *)
(* faults, one size of the miss response, one new key                       *)

MaxLifeIds == 2

LifeBodies == { Body(TRUE, JStr(<<104, 105>>), JAbsent, JAbsent) }

\* POST /api/share while fewer than MaxLifeIds link ids were handed out
ShareLife(data) == issued < MaxLifeIds /\ Post(data, 1, FALSE)

NextLife ==
    \/ \E data \in LifeBodies : ShareLife(data)
    \/ \E r \in Reqs, m \in Methods, id \in 1..MaxLifeIds :
          Retrieve(r, m, id, FALSE)
    \/ \E r \in Reqs : Miss(r, DelayMinMs, DummyPayloadMin)
    \/ \E r \in Reqs : Decrypt(r)
    \/ \E r \in Reqs : Delete(r, FALSE)
    \/ \E r \in Reqs : Respond(r)
    \/ Restart(MaxKey, EnvUnset)
    \/ StoreTick
    \/ \E item \in 1..MaxLifeIds : TtlExpire(item)
    \/ CleanupQuery(FALSE)
    \/ CleanupDelete(FALSE)
    \/ CleanupReturn

SpecLife == Init /\ [][NextLife]_vars

-----------------------------------------------------------------------------
(* Vocabulary of the properties *)

Done(r) == req[r].pc = "done"
DoneGet(r) == Done(r) /\ req[r].method = "GET"
DoneHead(r) == Done(r) /\ req[r].method = "HEAD"
Body_(r) == req[r].resp.json

\* the response of r carries the payload that was submitted for its id
RealPayload(r) ==
    /\ DoneGet(r)
    /\ req[r].id \in DOMAIN posted
    /\ "payload" \in DOMAIN Body_(r)
    /\ Body_(r).payload = posted[req[r].id].body.payload

\* the response of r is the one the handler synthesizes on a miss
DummyShaped(r) ==
    /\ DoneGet(r)
    /\ req[r].resp.status = 200
    /\ {"mime", "payload", "e2ee"} \subseteq DOMAIN Body_(r)
    /\ Body_(r).payload = JStr(DummyPayloadText)

\* retrieve_secret found a server-encrypted record that did not decrypt
DecryptFailed(r) ==
    /\ Done(r)
    /\ req[r].obj # NoSecret
    /\ ~req[r].obj.is_e2ee
    /\ req[r].dec = None

\* retrieve_secret found nothing
Missed(r) == Done(r) /\ req[r].obj = NoSecret

\* r2 arrived after r1 had been answered, for the same id
Later(r1, r2) == r1 \in req[r2].prior /\ req[r2].id = req[r1].id

-----------------------------------------------------------------------------
(* C1 *)

\* C1 as claimed: once a GET has returned the real secret, every later GET
\* for the same id returns the dummy-shaped miss response and not the payload.
C1_AsClaimed ==
    \A r1, r2 \in Reqs :
        (RealPayload(r1) /\ Later(r1, r2) /\ DoneGet(r2))
            => (DummyShaped(r2) /\ ~RealPayload(r2))

\* the delete_secret call of r reported failure
DeleteFailed(r) == req[r].delCalls > 0 /\ ~req[r].delOk

\* C1, amended: once a GET has returned the real secret, every later GET for
\* the same id returns the dummy-shaped miss response and never the original
\* payload, unless the delete_secret call of the first GET reported failure.
C1_OneTimeConsumption ==
    \A r1, r2 \in Reqs :
        (RealPayload(r1) /\ ~DeleteFailed(r1) /\ Later(r1, r2) /\ DoneGet(r2))
            => (DummyShaped(r2) /\ ~RealPayload(r2))

C1_Witness ==
    \E r1, r2 \in Reqs :
        /\ RealPayload(r1) /\ req[r1].delOk
        /\ Later(r1, r2) /\ DoneGet(r2) /\ DummyShaped(r2)

-----------------------------------------------------------------------------
(* C2 *)

\* r1 and r2 overlap: neither arrived after the other was answered
Concurrent(r1, r2) ==
    r1 # r2 /\ r1 \notin req[r2].prior /\ r2 \notin req[r1].prior

\* C2 as claimed: of the concurrent GETs on one live id, at most one
\* response contains the real payload.
C2_AsClaimed ==
    \A r1, r2 \in Reqs :
        (Concurrent(r1, r2) /\ req[r1].id = req[r2].id)
            => ~(RealPayload(r1) /\ RealPayload(r2))

\* C2, amended: two GET responses for one id both contain the real payload
\* only if each of the two requests read the record before the delete_secret
\* of the other had succeeded; a GET whose store read follows a successful
\* delete of the record never returns the payload.
C2_AtMostOnceAfterDelete ==
    \A r1, r2 \in Reqs :
        (r1 # r2 /\ req[r1].id = req[r2].id
           /\ RealPayload(r1) /\ RealPayload(r2))
            => (r1 \notin req[r2].priorDel /\ r2 \notin req[r1].priorDel)

\* the race happens: two concurrent GETs both answered with the real payload
C2_Witness ==
    \E r1, r2 \in Reqs :
        /\ Concurrent(r1, r2) /\ req[r1].id = req[r2].id
        /\ RealPayload(r1) /\ RealPayload(r2)
        /\ req[r1].delOk

-----------------------------------------------------------------------------
(* C3 *)

-----------------------------------------------------------------------------
(* C4 *)

\* C4 as claimed: the response for a record that does not decrypt has the
\* status code and the field set of the response for an id that is not in
\* the store, and contains `payload`.
C4_AsClaimed ==
    \A r1, r2 \in Reqs :
        (DoneGet(r1) /\ DecryptFailed(r1) /\ DoneGet(r2) /\ Missed(r2))
            => /\ req[r1].resp.status = req[r2].resp.status
               /\ Fields(Body_(r1)) = Fields(Body_(r2))
               /\ "payload" \in DOMAIN Body_(r1)

-----------------------------------------------------------------------------
(* C5 *)

\* the body holds nothing but random padding
OnlyPadding(d) == \A k \in DOMAIN d : k = "_padding" /\ d[k].t = "rand"

\* C5 as claimed: a GET that finds a record that does not decrypt calls
\* delete_secret exactly once, the record is gone afterwards, and the
\* response does not contain the stored bytes.
C5_AsClaimed ==
    \A r \in Reqs :
        (DoneGet(r) /\ DecryptFailed(r))
            => /\ req[r].delCalls = 1
               /\ req[r].id \notin DOMAIN container
               /\ OnlyPadding(Body_(r))

\* C5, amended: a GET that finds a record that does not decrypt calls
\* delete_secret exactly once; when that call succeeds the record is gone
\* afterwards; the response never contains the stored bytes.
C5_CorruptDeleted ==
    \A r \in Reqs :
        (DoneGet(r) /\ DecryptFailed(r))
            => /\ req[r].delCalls = 1
               /\ (req[r].delOk => req[r].id \notin DOMAIN container)
               /\ OnlyPadding(Body_(r))

C5_Witness ==
    \E r \in Reqs :
        /\ DoneGet(r) /\ DecryptFailed(r) /\ req[r].delOk
        /\ req[r].id \notin DOMAIN container

-----------------------------------------------------------------------------
(* C6 *)

\* status code and field set of a response
Shape(r) == <<req[r].resp.status, Fields(Body_(r))>>

\* the one shape of the responses to a never-issued id
UnknownShape ==
    <<200, {<<"mime">>, <<"payload">>, <<"e2ee">>, <<"e2ee", "payload">>,
            <<"e2ee", "salt">>, <<"e2ee", "nonce">>, <<"_padding">>}>>

\* C6: the response for a never-issued id and the response for an id that
\* has just been consumed have the same status code and the same set of
\* fields: every response of either kind has the shape UnknownShape, and so
\* do any two of them in one state.
C6_UnknownVsConsumed ==
    /\ \A r \in Reqs :
          (DoneGet(r) /\ req[r].cat \in {"unknown", "consumed"})
              => Shape(r) = UnknownShape
    /\ \A r1, r2 \in Reqs :
          (DoneGet(r1) /\ req[r1].cat = "unknown"
             /\ DoneGet(r2) /\ req[r2].cat = "consumed")
              => Shape(r1) = Shape(r2)

\* a GET answered for an id that an earlier GET has just consumed
C6_Witness ==
    \E r1, r2 \in Reqs :
        /\ RealPayload(r1) /\ req[r1].delOk
        /\ req[r2].prior = {r1} /\ req[r2].id = req[r1].id
        /\ DoneGet(r2) /\ req[r2].cat = "consumed"
        /\ Shape(r2) = UnknownShape

-----------------------------------------------------------------------------
(* C7 *)

\* the field set of a real E2EE hit
E2eeHitFields ==
    {<<"mime">>, <<"payload">>, <<"e2ee">>, <<"e2ee", "salt">>,
     <<"e2ee", "nonce">>}

\* C7 as claimed: the dummy response of a miss has exactly the fields of a
\* real E2EE hit (plus `_padding`) and no field that a real E2EE hit lacks.
C7_AsClaimed ==
    \A r \in Reqs :
        (DoneGet(r) /\ Missed(r))
            => Fields(Body_(r)) \ {<<"_padding">>} = E2eeHitFields

-----------------------------------------------------------------------------
(* C8 *)

-----------------------------------------------------------------------------
(* C9 *)

\* C9 as claimed: a HEAD request does not consume the secret: no step of a
\* HEAD request removes a document from the store.
C9_AsClaimed ==
    [][\A r \in Reqs :
          (req'[r].method = "HEAD" /\ req'[r].pc # req[r].pc)
              => DOMAIN container' = DOMAIN container]_vars

-----------------------------------------------------------------------------
(* C10 *)

\* r is the first GET for its id
FirstGet(r) ==
    \A q \in Reqs : (q < r /\ req[q].method = "GET" /\ req[q].pc # "new")
                        => req[q].id # req[r].id

PostedE2ee(link_id) == link_id \in DOMAIN posted /\ posted[link_id].e2ee

\* r returns payload, salt and nonce as submitted and nobody called
\* encrypt_secret or decrypt_secret
Passthrough(r) ==
    LET sent == posted[req[r].id].body
    IN  /\ {"payload", "e2ee"} \subseteq DOMAIN Body_(r)
        /\ Body_(r).payload = sent.payload
        /\ Body_(r).e2ee.t = "obj"
        /\ {"salt", "nonce"} \subseteq DOMAIN Body_(r).e2ee.v
        /\ Body_(r).e2ee.v.salt = sent.e2ee.v.salt
        /\ Body_(r).e2ee.v.nonce = sent.e2ee.v.nonce
        /\ ~posted[req[r].id].encrypted
        /\ req[r].decCalls = 0

\* C10 as claimed: for every POST with e2ee answered 201, the first GET of
\* the returned link id returns the submitted payload, salt and nonce, and
\* neither handler encrypts or decrypts.
C10_AsClaimed ==
    \A r \in Reqs :
        (DoneGet(r) /\ FirstGet(r) /\ req[r].cat # "unknown"
           /\ PostedE2ee(req[r].id))
            => Passthrough(r)

\* C10, amended: for every POST with e2ee answered 201 with a link id, the
\* first GET of that link id that finds the record in the store returns the
\* submitted payload, salt and nonce, and neither handler encrypts or
\* decrypts.
C10_E2eePassthrough ==
    \A r \in Reqs :
        (DoneGet(r) /\ req[r].obj # NoSecret /\ PostedE2ee(req[r].id))
            => Passthrough(r)

C10_Witness ==
    \E r \in Reqs :
        /\ DoneGet(r) /\ FirstGet(r) /\ req[r].obj # NoSecret
        /\ PostedE2ee(req[r].id) /\ Passthrough(r)

-----------------------------------------------------------------------------
(* C11 *)

\* retrieve_secret found a record that the handler can hand out: an E2EE
\* record, or a server-encrypted one that decrypted
FoundLive(r) ==
    /\ req[r].obj # NoSecret
    /\ req[r].obj.is_e2ee \/ req[r].dec # None

\* C11: every GET that finds a live record (E2EE, or non-E2EE that decrypts)
\* calls delete_secret for its id, and when that delete succeeds the record
\* is absent from the store when the GET completes.
C11_RetrievalRemoves ==
    \A r \in Reqs :
        (DoneGet(r) /\ FoundLive(r))
            => /\ req[r].delCalls = 1
               /\ req[r].delOk => req[r].id \notin DOMAIN container

\* an E2EE record and the delete of the GET that returned it succeeded
C11_Witness ==
    \E r \in Reqs :
        /\ DoneGet(r) /\ FoundLive(r) /\ req[r].obj.is_e2ee
        /\ req[r].delCalls = 1 /\ req[r].delOk
        /\ req[r].id \notin DOMAIN container

-----------------------------------------------------------------------------
(* C12 *)

PostedPlain(link_id) == link_id \in DOMAIN posted /\ ~posted[link_id].e2ee

\* r returns the payload and the mime type submitted for its id
\* ("text/plain" when the POST gave none)
RoundTrip(r) ==
    LET sent == posted[req[r].id].body
    IN  /\ {"payload", "mime"} \subseteq DOMAIN Body_(r)
        /\ Body_(r).payload = sent.payload
        /\ Body_(r).mime = IF sent.mime.t = "absent" THEN JStr(TextPlain)
                           ELSE sent.mime

-----------------------------------------------------------------------------
(* C13 *)

\* C13: when retrieve_secret finds the record and it is E2EE or decrypts,
\* but delete_secret reports failure, the GET still answers 200 with the
\* real payload.
C13_DeleteFailureDoesNotBlock ==
    \A r \in Reqs :
        (DoneGet(r) /\ FoundLive(r) /\ DeleteFailed(r))
            => (req[r].resp.status = 200 /\ RealPayload(r))

\* a store error in delete_secret, the record still there, and the payload
\* returned
C13_Witness ==
    \E r \in Reqs :
        /\ DoneGet(r) /\ FoundLive(r) /\ DeleteFailed(r)
        /\ req[r].id \in DOMAIN container
        /\ req[r].resp.status = 200 /\ RealPayload(r)

-----------------------------------------------------------------------------
(* C14 *)

\* a POST /api/share has just been answered
Answered == lastPost' # lastPost

\* C14 as claimed: whenever a POST passes validation and the store does not
\* persist the record, the response is 500 with the generic message, never
\* 201.
C14_AsClaimed ==
    [][(Answered /\ lastPost'.status \notin {400, 413}
          /\ container' = container)
         => /\ lastPost'.status = 500
            /\ lastPost'.link_id = 0]_vars

-----------------------------------------------------------------------------
(* C15 *)

\* the body is well formed but for the size of its payload
WellFormed(b) ==
    /\ b.is_json
    /\ b.payload.t = "str" /\ b.payload.v # <<>>
    /\ b.mime.t \in {"absent", "str"}
    /\ \/ b.e2ee.t \in {"absent", "null"}
       \/ /\ b.e2ee.t = "obj"
          /\ {"salt", "nonce"} \subseteq DOMAIN b.e2ee.v
          /\ b.e2ee.v.salt.t = "str" /\ b.e2ee.v.nonce.t = "str"

\* number of bytes of the UTF-8 encoding of the payload
PayloadBytes(b) == Len(Utf8Encode(b.payload.v))

\* C15: a payload of MAX_SECRET_LENGTH_BYTES + 1 bytes is answered 413 and
\* nothing is stored; a payload of exactly MAX_SECRET_LENGTH_BYTES bytes is
\* answered 201.
C15_SizeBound ==
    [][(Answered /\ WellFormed(lastPost'.body))
         => /\ PayloadBytes(lastPost'.body) = MAX_SECRET_LENGTH_BYTES + 1
                 => (lastPost'.status = 413 /\ container' = container)
            /\ PayloadBytes(lastPost'.body) = MAX_SECRET_LENGTH_BYTES
                 => lastPost'.status = 201]_vars

\* a payload of exactly MAX_SECRET_LENGTH_BYTES bytes (fewer characters) was
\* accepted and stored
C15_Witness ==
    /\ WellFormed(lastPost.body)
    /\ PayloadBytes(lastPost.body) = MAX_SECRET_LENGTH_BYTES
    /\ Len(lastPost.body.payload.v) < MAX_SECRET_LENGTH_BYTES
    /\ lastPost.status = 201
    /\ lastPost.link_id \in DOMAIN container

-----------------------------------------------------------------------------
(* C16 *)

\* the e2ee member misses salt or nonce, or one of them is not a string
BadE2eeFields(e) ==
    \/ "salt" \notin DOMAIN e.v
    \/ "nonce" \notin DOMAIN e.v
    \/ e.v.salt.t # "str"
    \/ e.v.nonce.t # "str"

\* the invalid inputs the claim lists; notObject is the set of JSON types of
\* `e2ee` that count as "not an object"
InvalidInput(b, notObject) ==
    \/ ~b.is_json
    \/ b.payload.t # "str"
    \/ b.payload.v = <<>>
    \/ b.mime.t \notin {"absent", "str"}
    \/ b.e2ee.t \in notObject
    \/ b.e2ee.t = "obj" /\ BadE2eeFields(b.e2ee)

\* C16 as claimed: invalid input to POST /api/share, an `e2ee` that is not
\* an object included, is answered 400 and leaves the store unchanged.
C16_AsClaimed ==
    [][(Answered /\ InvalidInput(lastPost'.body, {"null", "int", "str"}))
         => (lastPost'.status = 400 /\ container' = container)]_vars

\* C16, amended: a non-JSON body, a missing, empty or non-string payload, a
\* non-string mime, an `e2ee` that is neither null nor an object, or an
\* `e2ee` object whose salt or nonce is missing or not a string is answered
\* 400 and leaves the store unchanged.
C16_InvalidInput400 ==
    [][(Answered /\ InvalidInput(lastPost'.body, {"int", "str"}))
         => (lastPost'.status = 400 /\ container' = container)]_vars

\* an e2ee object without nonce was rejected
C16_Witness ==
    /\ lastPost.body.e2ee.t = "obj"
    /\ "nonce" \notin DOMAIN lastPost.body.e2ee.v
    /\ lastPost.status = 400

-----------------------------------------------------------------------------
(* C17 *)

\* size of the serialized response body, measured as pad_response_data
\* measures it
BodySize(r) == JsonLen(JObj(Body_(r)))

\* C17 as claimed: every GET response body, whichever path produced it, is
\* padded to the same size.
C17_AsClaimed ==
    \A r1, r2 \in Reqs :
        (DoneGet(r1) /\ DoneGet(r2)) => BodySize(r1) = BodySize(r2)

-----------------------------------------------------------------------------
(* C18 *)

\* C18: on every miss the handler injects exactly one delay, of 5 to 25
\* milliseconds, before it answers.
C18_OneDelayPerMiss ==
    \A r \in Reqs :
        Missed(r) => /\ Len(req[r].slept) = 1
                     /\ req[r].slept[1] >= 5
                     /\ req[r].slept[1] <= 25

\* two misses answered after different delays
C18_Witness ==
    \E r1, r2 \in Reqs :
        /\ DoneGet(r1) /\ Missed(r1) /\ req[r1].slept = <<5>>
        /\ DoneGet(r2) /\ Missed(r2) /\ req[r2].slept = <<25>>

-----------------------------------------------------------------------------
(* C19 *)

\* C19: for every non-empty string P and every valid key ring,
\* decrypt_secret(encrypt_secret(P)) = P under that ring.
C19_EncryptionRoundTrip ==
    (calc.pc = "decrypted" /\ calc.ring = ring)
        => calc.result = Some(calc.text)

\* the round trip of a text with a two-byte and a three-byte character under
\* a ring of two keys
C19_Witness ==
    /\ calc.pc = "decrypted" /\ calc.ring = ring /\ Len(ring) = 2
    /\ calc.text = <<233, 8364>>
    /\ calc.result = Some(calc.text)

-----------------------------------------------------------------------------
(* C20 *)

\* the current key was replaced and the key the token was made under is now
\* the previous key
Rotated ==
    /\ Len(ring) = 2
    /\ ring[1] # calc.ring[1]
    /\ ring[2] = calc.ring[1]

\* C20: a ciphertext produced while K was the current key still decrypts to
\* its plaintext after a restart that configures a new current key and K as
\* the previous key.
C20_KeyRotation ==
    (calc.pc = "decrypted" /\ Rotated) => calc.result = Some(calc.text)

C20_Witness ==
    /\ calc.pc = "decrypted" /\ Rotated
    /\ calc.text # <<>> /\ calc.result = Some(calc.text)

-----------------------------------------------------------------------------
(* C21 *)

\* the token was made under the key k: Fernet(k) accepts it
MadeUnder(k, token) == FernetValid(k, token)

\* C21: for every key ring, every ciphertext returned by encrypt_secret is
\* produced under the current key, the first key of the ring, and under no
\* other key of the ring.
C21_NewestKeyEncrypts ==
    calc.pc \in {"encrypted", "decrypted"}
        => /\ MadeUnder(calc.ring[1], calc.token)
           /\ \A i \in 1..Len(calc.ring) :
                  calc.ring[i] # calc.ring[1]
                      => ~MadeUnder(calc.ring[i], calc.token)

\* a ciphertext made with a ring of two different keys
C21_Witness ==
    /\ calc.pc = "encrypted"
    /\ Len(calc.ring) = 2 /\ calc.ring[1] # calc.ring[2]
    /\ MadeUnder(calc.ring[1], calc.token)
    /\ ~MadeUnder(calc.ring[2], calc.token)

-----------------------------------------------------------------------------
(* C22 *)

\* the input of the decrypt_secret call is bytes that no key of the ring
\* the call ran under authenticates
Unauthenticated ==
    /\ calc.input.t = "bytes"
    /\ \A i \in 1..Len(ring) : ~FernetValid(ring[i], calc.input.v)

\* C22: decrypt_secret returns None and raises nothing for every bytes input
\* that no key of the ring authenticates; it raises TypeError only when the
\* input is not bytes, and raises nothing else.
C22_DecryptFailureIsNone ==
    calc.pc \in {"decrypted", "answered"}
        => /\ Unauthenticated => (calc.exc = "" /\ calc.result = None)
           /\ calc.exc = "TypeError" => calc.input.t # "bytes"
           /\ calc.exc \in {"", "TypeError"}

\* a whole token made under a key that is not in the ring
C22_Witness ==
    /\ calc.pc = "answered"
    /\ Unauthenticated
    /\ Len(calc.input.v) = 4 /\ calc.input.v[1] = FernetVersion
    /\ calc.input.v[2] \in KeyIds
    /\ calc.exc = "" /\ calc.result = None

-----------------------------------------------------------------------------
(* C23 *)

\* C23: a process started with a missing or invalid MASTER_ENCRYPTION_KEY
\* does not come up and has no key ring; one started with a valid current
\* key and an invalid MASTER_ENCRYPTION_KEY_PREVIOUS comes up with a ring
\* that holds only the current key.
C23_KeyRingStartup ==
    calc.env # <<>>
        => /\ calc.env[1] \notin KeyIds => (~up /\ ring = <<>>)
           /\ (calc.env[1] \in KeyIds /\ calc.env[2] = EnvInvalid)
                  => (up /\ ring = <<calc.env[1]>>)

\* a start with the current key 2 and an invalid previous key
C23_Witness ==
    /\ calc.env = <<2, EnvInvalid>>
    /\ up /\ ring = <<2>>

-----------------------------------------------------------------------------
(* C24 *)

\* the document carries the e2ee object with its salt and its nonce
HasE2eeParams(doc) ==
    /\ "e2ee_data" \in DOMAIN doc
    /\ doc.e2ee_data.t = "obj"
    /\ {"salt", "nonce"} \subseteq DOMAIN doc.e2ee_data.v

\* the request body carried an e2ee object
CarriedE2ee(b) == b.e2ee.t = "obj"

\* C24: every stored record that is E2EE has its e2ee parameters, salt and
\* nonce both; the e2ee flag of a 201 response and the is_e2ee of the record
\* stored for it are true exactly when the request carried an e2ee object.
C24_E2eeConsistency ==
    /\ \A id \in DOMAIN container :
           /\ container[id].is_e2ee => HasE2eeParams(container[id])
           /\ id \in DOMAIN posted
                  => (container[id].is_e2ee <=> CarriedE2ee(posted[id].body))
    /\ lastPost.status = 201 => (lastPost.e2ee <=> CarriedE2ee(lastPost.body))

\* an E2EE request answered 201 and its record in the store
C24_Witness ==
    /\ lastPost.status = 201 /\ lastPost.e2ee
    /\ CarriedE2ee(lastPost.body)
    /\ lastPost.link_id \in DOMAIN container
    /\ container[lastPost.link_id].is_e2ee
    /\ container[lastPost.link_id].e2ee_data.v.salt = JStr(SaltS)
    /\ container[lastPost.link_id].e2ee_data.v.nonce = JStr(NonceN)

-----------------------------------------------------------------------------
(* C25 *)

\* the record of id has left LIVE: it was stored for a POST and is in the
\* store no more
Left(id) == id \in DOMAIN posted /\ id \notin DOMAIN container

\* in this step the request r arrives for id and the handler looks it up
Arrives(r, id) ==
    req[r].pc = "new" /\ req'[r].pc = "fetched" /\ req'[r].id = id

-----------------------------------------------------------------------------
(* C26 *)

\* retrieve_secret found a record for r
Found(r) == req[r].pc # "new" /\ req[r].obj # NoSecret

\* r2 arrived for the id of r1 after r1 had been answered, and its lookup
\* has returned
LookedUpAfter(r1, r2) == Later(r1, r2) /\ req[r2].pc # "new"

\* C26 as claimed: on every path that finds a record the delete_secret call
\* has completed before the response is sent, and a retrieval that starts
\* after that response finds the record gone.
C26_AsClaimed ==
    \A r1, r2 \in Reqs :
        (Done(r1) /\ Found(r1))
            => /\ req[r1].delCalls = 1
               /\ LookedUpAfter(r1, r2) => req[r2].obj = NoSecret

\* C26, amended: on every path that finds a record the delete_secret call
\* has returned before the response is sent, and when it reported success a
\* retrieval that starts after that response finds the record gone.
C26_DeleteBeforeResponse ==
    \A r1, r2 \in Reqs :
        (Done(r1) /\ Found(r1))
            => /\ req[r1].delCalls = 1
               /\ (req[r1].delOk /\ LookedUpAfter(r1, r2))
                      => req[r2].obj = NoSecret

\* an E2EE record was found and deleted by r1, and r2, which came after the
\* response of r1, found nothing
C26_Witness ==
    \E r1, r2 \in Reqs :
        /\ Done(r1) /\ Found(r1) /\ req[r1].obj.is_e2ee
        /\ req[r1].delCalls = 1 /\ req[r1].delOk
        /\ LookedUpAfter(r1, r2) /\ req[r2].obj = NoSecret

-----------------------------------------------------------------------------
(* C27 *)

\* in this step the run of cleanup_expired_secrets moves
SweepStep == calls'.sweep # calls.sweep

\* the record is older than the threshold of the run
OlderThan(doc, expiry_threshold) == doc.created_at < expiry_threshold

\* a step of the run removes only records older than its threshold and
\* changes no other record
SweepsOnlyExpired ==
    [][SweepStep =>
          /\ DOMAIN container' \subseteq DOMAIN container
          /\ \A id \in DOMAIN container :
                 IF OlderThan(container[id], calls'.sweep.expiry_threshold)
                 THEN id \in DOMAIN container'
                          => container'[id] = container[id]
                 ELSE id \in DOMAIN container'
                          /\ container'[id] = container[id]]_vars

\* no record older than the threshold of the run is in the store
NoneExpiredLeft ==
    \A id \in DOMAIN container :
        ~OlderThan(container[id], calls.sweep.expiry_threshold)

\* C27 as claimed: cleanup_expired_secrets removes only records older than
\* now minus the expiry window, changes no younger record, and when it has
\* returned every record older than that is absent.
C27_AsClaimed ==
    /\ SweepsOnlyExpired
    /\ [](calls.sweep.pc = "done" => NoneExpiredLeft)

\* C27, amended: the same, for the runs in which no store call fails with
\* an error other than NotFound.
C27_SweepDeletesExpired ==
    /\ SweepsOnlyExpired
    /\ []((calls.sweep.pc = "done" /\ ~calls.sweep.error)
              => NoneExpiredLeft)

\* a run at time 2 with the window 1: the record created at time 0 was
\* deleted and the record created at time 1, at the threshold, is stored
C27_Witness ==
    /\ calls.sweep.pc = "done" /\ ~calls.sweep.error
    /\ calls.sweep.deleted = {1}
    /\ 2 \in DOMAIN container
    /\ container[2].created_at = calls.sweep.expiry_threshold

-----------------------------------------------------------------------------
(* C28 *)

\* C28 as claimed: check_secret_exists(id) returns True exactly for a stored
\* record that is not older than the expiry window: False for a record
\* older than the window that is still stored, for an absent id and for the
\* empty id (calls whose store read fails with an error are set aside).
C28_AsClaimed ==
    (calls.check.pc = "done" /\ ~calls.check.fault)
        => (calls.check.result
               <=> /\ calls.check.id # 0
                   /\ calls.check.stored
                   /\ ~calls.check.expired)

-----------------------------------------------------------------------------
(* C29 *)

\* in this step the retrieve_and_delete_secret call k moves
RetrievalStep(k) == calls'.rd[k] # calls.rd[k]

\* the call k returned data
Returned(k) == calls.rd[k].pc = "done" /\ calls.rd[k].result # None

\* C29: a retrieval of one id leaves the record of every other id in the
\* store and unchanged, and every retrieval that returns data returns the
\* data that was stored under its own id.
C29_Isolation ==
    /\ [][\A k \in Calls :
              RetrievalStep(k) =>
                  \A id \in DOMAIN container :
                      id # calls'.rd[k].id
                          => /\ id \in DOMAIN container'
                             /\ container'[id] = container[id]]_vars
    /\ [](\A k \in Calls :
              Returned(k)
                  => calls.rd[k].result = Some(calls.stored[calls.rd[k].id]))

\* two records with different data: the first call returned the data of
\* id 1, the second call began after that and returned the data of id 2
C29_Witness ==
    /\ DOMAIN calls.stored = {1, 2} /\ calls.stored[1] # calls.stored[2]
    /\ Returned(1) /\ calls.rd[1].id = 1
    /\ calls.rd[1].result = Some(calls.stored[1])
    /\ 1 \in calls.rd[2].prior
    /\ Returned(2) /\ calls.rd[2].id = 2
    /\ calls.rd[2].result = Some(calls.stored[2])

-----------------------------------------------------------------------------
(* C30 *)

\* the calls k1 and k2 overlap: neither began after the other had returned
Overlap(k1, k2) ==
    /\ k1 # k2
    /\ calls.rd[k1].pc # "new" /\ calls.rd[k2].pc # "new"
    /\ k1 \notin calls.rd[k2].prior /\ k2 \notin calls.rd[k1].prior

\* C30: retrieve_and_delete_secret returns the data only when its own
\* delete of the record succeeded, and of the calls on one id, however they
\* interleave, at most one returns the data.
C30_AtMostOneReturns ==
    /\ \A k \in Calls : calls.rd[k].result # None
           => (calls.rd[k].pc = "done" /\ calls.rd[k].exc = "")
    /\ \A k1, k2 \in Calls :
           (k1 # k2 /\ calls.rd[k1].id = calls.rd[k2].id)
               => ~(Returned(k1) /\ Returned(k2))

\* two overlapping calls on one id both read the record; the delete of one
\* succeeded and it returned the data, the delete of the other met
\* NotFound and it returned None
C30_Witness ==
    \E k1, k2 \in Calls :
        /\ Overlap(k1, k2) /\ calls.rd[k1].id = calls.rd[k2].id
        /\ calls.rd[k1].data # <<>> /\ calls.rd[k2].data # <<>>
        /\ Returned(k1)
        /\ calls.rd[k2].pc = "done" /\ calls.rd[k2].exc = "NotFound"
        /\ calls.rd[k2].result = None

-----------------------------------------------------------------------------
(* C31 *)

\* the call k has returned, and its id was empty or not a str, or the
\* store read or the store delete raised (a missing record included)
Folded(k) ==
    /\ calls.rd[k].pc = "done"
    /\ \/ calls.rd[k].id \in {0, NotAStr}
       \/ calls.rd[k].exc # ""

\* C31: retrieve_and_delete_secret raises nothing, and it returns None and
\* never data when the store read or the store delete fails with any error,
\* as it does for an absent id, an empty id and an id that is not a str.
C31_ErrorsFoldIntoMiss ==
    \A k \in Calls :
        /\ calls.rd[k].raised = ""
        /\ Folded(k) => calls.rd[k].result = None

\* a call read a stored record, its delete failed with an error other than
\* a missing record, and it returned None; another call was made with an
\* id that is not a str
C31_Witness ==
    \E k, q \in Calls :
        /\ calls.rd[k].pc = "done" /\ calls.rd[k].data # <<>>
        /\ calls.rd[k].exc = "Error" /\ calls.rd[k].result = None
        /\ calls.rd[q].pc = "done" /\ calls.rd[q].id = NotAStr

-----------------------------------------------------------------------------
(* C32 *)

\* C32 as claimed: in every run of cleanup_expired_secrets, a run in which
\* a store error occurs after some records were deleted included, the count
\* it returns is the number of records the run deleted from the store.
C32_AsClaimed ==
    calls.sweep.pc = "done" =>
        calls.sweep.result = Cardinality(calls.sweep.deleted)

\* the part that holds: a run that no store error ended returns the number
\* of records it deleted
C32_CountWithoutError ==
    (calls.sweep.pc = "done" /\ ~calls.sweep.error) =>
        calls.sweep.result = Cardinality(calls.sweep.deleted)

-----------------------------------------------------------------------------
(* C33 *)

\* C33 as claimed: a retrieval of a record whose created_at is older than
\* the expiry window never returns that record's payload, whether or not
\* the sweep or the store TTL has already removed the record.
C33_AsClaimed ==
    \A k \in Calls : Returned(k) => ~calls.rd[k].expired

-----------------------------------------------------------------------------
(* C34 *)

\* the compact serialized size of the body pad_response_data was given,
\* that of the body it returned, and the target
PadCurrent == JsonLen(JObj(calc.response_data))
PadResult == JsonLen(JObj(calc.padded))
PadTarget == MAX_SECRET_LENGTH_BYTES + 50 * 1024

\* C34: with target = MAX_SECRET_LENGTH_BYTES + 50*1024 and current = the
\* compact serialized size of the input, pad_response_data adds a _padding
\* string of exactly target - current - 50 characters when
\* current < target - 50, and the padded body never exceeds target; it adds
\* nothing when current >= target - 50; it never removes or changes an
\* existing field.
C34_PaddingArithmetic ==
    calc.pc = "padded" =>
        /\ PadCurrent < PadTarget - 50 =>
              /\ DOMAIN calc.padded = DOMAIN calc.response_data \cup {"_padding"}
              /\ calc.padded["_padding"] = JRand(PadTarget - PadCurrent - 50)
              /\ PadResult <= PadTarget
        /\ PadCurrent >= PadTarget - 50 => calc.padded = calc.response_data
        /\ \A k \in DOMAIN calc.response_data :
              k \in DOMAIN calc.padded /\ calc.padded[k] = calc.response_data[k]

\* a body one byte below target - 50 was padded with one character
C34_Witness ==
    /\ calc.pc = "padded"
    /\ PadCurrent = PadTarget - 51
    /\ calc.padded["_padding"] = JRand(1)

-----------------------------------------------------------------------------
(* C35 *)

\* the key ring of a process that came up: not empty, its first element a
\* valid key, and at most one previous key behind it
RingShape ==
    /\ Len(ring) \in {1, 2}
    /\ \A i \in 1..Len(ring) : ring[i] \in KeyIds

\* the ring holds the keys of the environment the process was started with
RingOfEnv ==
    /\ ring[1] = calc.env[1]
    /\ Len(ring) = 2 => ring[2] = calc.env[2]

\* the key the token of this process was made under
TokenKey == calc.ring[1]

\* n restarts followed the encryption, each a rotation: a current key never
\* used before, with the key that was current until then as the previous one
Rotations(n) ==
    /\ Len(calc.rings) = n
    /\ \A i \in 1..n :
           /\ Len(calc.rings[i]) = 2
           /\ calc.rings[i][2] =
                  (IF i = 1 THEN TokenKey ELSE calc.rings[i - 1][1])
           /\ calc.rings[i][1] # TokenKey
           /\ \A j \in 1..(i - 1) : calc.rings[i][1] # calc.rings[j][1]

\* C35: after every successful startup MASTER_ENCRYPTION_KEYS is a non-empty
\* list whose first element is the validated current key and which holds at
\* most one previous key; decrypt_secret returns None for a ciphertext made
\* under a key that is neither of these, so a stored secret decrypts after
\* one rotation and no longer after two.
C35_RingOfTwo ==
    /\ up => RingShape
    /\ (up /\ calc.env # <<>>) => RingOfEnv
    /\ calc.pc = "decrypted" =>
           /\ (\A i \in 1..Len(ring) : ring[i] # TokenKey)
                  => (calc.result = None /\ calc.exc = "")
           /\ Rotations(1) => calc.result = Some(calc.text)
           /\ Rotations(2) => calc.result = None

\* a token made under key 1 and read after two rotations, to key 2 and then
\* to key 3: the ring holds keys 3 and 2, and decrypt_secret returned None
C35_Witness ==
    /\ calc.pc = "decrypted" /\ Rotations(2)
    /\ TokenKey = 1 /\ ring = <<3, 2>>
    /\ calc.result = None

-----------------------------------------------------------------------------
(* C36 *)

\* the payload bytes a stored document holds: the stored bytes of an E2EE
\* record, the plaintext of the token of a server-encrypted one under the
\* key the token was made with
StoredPayload(doc) ==
    LET obj == from_dict(doc)
    IN  IF obj.is_e2ee THEN obj.encrypted_secret
        ELSE CipherSuiteDecrypt(<<obj.encrypted_secret[2]>>,
                                obj.encrypted_secret).data

\* C36: in every reachable store state every record created through
\* POST /api/share holds the payload as submitted, non-empty and of at most
\* MAX_SECRET_LENGTH_BYTES UTF-8 bytes, for E2EE and server-encrypted
\* payloads alike; a request answered 400 or 413 never adds a record.
C36_StoredPayloadBound ==
    /\ [](\A id \in DOMAIN container :
             /\ id \in DOMAIN posted
             /\ StoredPayload(container[id]) # <<>>
             /\ Len(StoredPayload(container[id])) <= MAX_SECRET_LENGTH_BYTES
             /\ StoredPayload(container[id])
                    = Utf8Encode(posted[id].body.payload.v))
    /\ [][(Answered /\ lastPost'.status \in {400, 413})
            => container' = container]_vars

\* the record of a server-encrypted payload of exactly
\* MAX_SECRET_LENGTH_BYTES bytes is in the store
C36_Witness ==
    \E id \in DOMAIN container :
        /\ id \in DOMAIN posted /\ ~container[id].is_e2ee
        /\ PayloadBytes(posted[id].body) = MAX_SECRET_LENGTH_BYTES
        /\ Len(StoredPayload(container[id])) = MAX_SECRET_LENGTH_BYTES

====
